---- MODULE Spec2Model ----
(***************************************************************************)
(* Background animations and page components of the portfolio page        *)
(* (src/script.js).                                                        *)
(*                                                                         *)
(* The file holds two scripts that each own a global STATE:                *)
(*   page = "nc"  : the NeuralCanvas engine (lines 1204-2056), a particle  *)
(*                  field with reflecting borders, pointer repulsion and   *)
(*                  a pairwise connection scan;                            *)
(*   page = "app" : the Application loop (lines 112-1200) that drives      *)
(*                  InputHandler, NeuralNetworkSystem (NeuralNode) and     *)
(*                  BackgroundSystem (BackgroundParticle).                 *)
(* Every behaviour follows one part of the page, chosen by page in Init:   *)
(*   "appResize" : the Application under window resizes, with a canvas     *)
(*                 that is present, has no 2d context, or is missing;      *)
(*   "keys"      : SystemSecrets (key buffer, activateGodMode);            *)
(*   "legacy"    : typing effect, navbar and orb listeners (lines 1-110);  *)
(*   "boot"      : BootSequence;                                           *)
(*   "terminal"  : TerminalSystem, the contact form;                       *)
(*   "menu"      : MobileMenuController;                                   *)
(*   "appSignals": the Application with the NeuralSignals that travel      *)
(*                 between NeuralNodes;                                    *)
(*   "debounce"  : a function wrapped by Utils.debounce, on a clock;       *)
(*   "throttle"  : a function wrapped by Utils.throttle, on a clock;       *)
(*   "typing"    : TypingEngine;                                           *)
(*   "scramble"  : TextScramble.                                           *)
(* The parts not followed stay in their idle records.                      *)
(*                                                                         *)
(* Numbers.  The code computes in floating point pixels.  The model keeps  *)
(* lengths as integers in units of 1/Scale pixel and rounds every product  *)
(* or quotient to the nearest unit; comparisons with a radius are made on  *)
(* squared distances and are exact.  Math.random() is a draw k/RandDen     *)
(* taken from one of a few fixed streams, so that a whole particle set is  *)
(* one nondeterministic choice.  A NaN coordinate is kept as a flag.       *)
(***************************************************************************)
EXTENDS Integers, Sequences, FiniteSets, TLC

\* ---------------------------------------------------------------- bounds
\* units per pixel
Scale == 20
\* Math.random() returns k / RandDen, k \in 0 .. RandDen-1
RandDen == 100
\* animation frames explored per page
MaxFrames == 4
\* particles of the NeuralCanvas tiers (the code's 60 and 120)
NCCountMobile == 2
NCCountDesktop == 3
\* particles of the BackgroundSystem tiers (the code's 40 and 100)
BGCountMobile == 2
BGCountDesktop == 3
\* resize events handled per page
MaxResizes == 2
\* key presses per page
MaxKeys == 11
\* pending timers that remove the 'shake' class
MaxShakeTimers == 2
\* sends of the contact form under way together
MaxFlows == 2
\* how many times faster than the code's (0.005 to 0.015 a frame) a signal travels
SignalSpeedUp == 34
\* the range of the start and end draws of TextScramble (the code's 40)
ScrambleSpan == 3
\* setText calls made to one TextScramble
MaxSetTexts == 2
\* clock ticks explored for a wrapped function
MaxTime == 6
\* calls made to a wrapped function
MaxCalls == 4
\* the wait of Utils.debounce, in clock ticks
WaitTicks == 2
\* the limit of Utils.throttle, in clock ticks
LimitTicks == 2

\* ------------------------------------------------------------- arithmetic
Abs(n) == IF n < 0 THEN -n ELSE n

\* a / b rounded to the nearest integer (b > 0)
RoundDiv(a, b) == (2 * a + b) \div (2 * b)

\* the sequence without its k-th element (Array.prototype.splice(k, 1))
Without(seq, k) == SubSeq(seq, 1, k - 1) \o SubSeq(seq, k + 1, Len(seq))

RECURSIVE SqrtSearch(_, _, _)
SqrtSearch(n, lo, hi) ==
    IF lo >= hi THEN lo
    ELSE LET mid == (lo + hi + 1) \div 2
         IN  IF mid * mid <= n THEN SqrtSearch(n, mid, hi)
                               ELSE SqrtSearch(n, lo, mid - 1)

\* Math.sqrt on the unit grid: the largest r with r*r <= n
Sqrt(n) == SqrtSearch(n, 0, 46340)

\* pixels to units
U(px) == px * Scale

\* Math.sqrt(dx*dx + dy*dy) in units.  Offsets of 30000 units or more (the sentinel
\* pointer is 9999 pixels away) are measured in whole pixels, which keeps the
\* squares inside the integer range.
Hypot(dx, dy) ==
    IF Abs(dx) < 30000 /\ Abs(dy) < 30000
    THEN Sqrt(dx * dx + dy * dy)
    ELSE Scale * Sqrt((dx \div Scale) * (dx \div Scale) + (dy \div Scale) * (dy \div Scale))

\* ------------------------------------------------------------ environment
\* window.innerWidth, window.innerHeight (pixels)
Viewports == { <<1000, 600>>, <<1200, 600>> }

\* pointer positions (e.x, e.y) a mousemove can report, in pixels
MousePoints == { <<2, 300>>, <<500, 450>> }

\* Streams of Math.random() draws, five per particle: x, y, vx, vy, size.
NCStreams ==
    << << <<50, 10, 50, 50, 0>>, <<50, 35, 50, 50, 0>>, <<50, 20, 50, 50, 0>> >>,
       << <<0, 50, 20, 50, 0>>,  <<0, 50, 20, 50, 0>>,  <<99, 99, 90, 90, 0>> >>,
       << <<0, 0, 40, 50, 0>>,   <<1, 1, 50, 50, 0>>,   <<0, 0, 50, 50, 0>> >> >>

NCSeeds == 1 .. Len(NCStreams)

\* the draws of the i-th particle (1-based) of a stream, used cyclically
NCDraw(seed, i) == NCStreams[seed][((i - 1) % Len(NCStreams[seed])) + 1]

VARIABLES
    page,           \* which script runs: "nc" or "app"
    frames,         \* animation frames run so far
    reducedMotion,  \* SYSTEM_CONFIG.core.reducedMotion
    width,          \* NeuralCanvas.width  (pixels)
    height,         \* NeuralCanvas.height (pixels)
    particleCount,  \* SYSTEM_CONFIG.animation.particleCount
    particles,      \* NeuralCanvas.particles
    mouseX,         \* STATE.mouseX (pixels)
    mouseY,         \* STATE.mouseY (pixels)
    xflips,         \* per particle: vx sign flips since it was last inside [0, width]
    yflips,         \* per particle: vy sign flips since it was last inside [0, height]
    mouse,          \* STATE.mouse of the Application script (pixels)
    isMobile,       \* CONFIG.core.isMobile
    annRect,        \* the hero canvas: getBoundingClientRect() and CanvasController size
    nodes,          \* NeuralNetworkSystem.nodes
    signals,        \* NeuralNetworkSystem.signals
    localMouse,     \* the mouseVec NeuralNetworkSystem.update handed to the nodes
    bgW,            \* CanvasController.width of the background canvas (pixels)
    bgH,            \* CanvasController.height of the background canvas (pixels)
    bgParticles,    \* BackgroundSystem.particles
    bgResets,       \* how many particles the last BackgroundSystem.update re-seeded
    gen,            \* how many times a resize has recreated the particle set
    screenW,        \* STATE.screen.width of the Application script (pixels)
    nodeTimers,     \* pending setTimeout(createNodes, 100) callbacks
    surface,        \* the canvases of the Application: "ok", "nocontext" or "missing"
    ops,            \* the particle operations of the last frame, in execution order
    error,          \* an uncaught TypeError has been raised
    dom,            \* the elements the page has, of those the followed component looks up
    rafPending,     \* requestAnimationFrame callbacks pending for the background canvas
    secrets,        \* SystemSecrets: keyBuffer, keys typed, the accent colour
    legacy,         \* the typing effect, navbar and orb of lines 1-110
    boot,           \* BootSequence, STATE.isBooted, body overflow, the loader's style
    term,           \* TerminalSystem: inputs, send button, status line, shake
    menu,           \* MobileMenuController: isOpen and the two class lists
    deb,            \* a function wrapped by Utils.debounce, its timers and invocations
    thr,            \* a function wrapped by Utils.throttle, its timers and invocations
    engine,         \* a TypingEngine: its fields, the element's text, its pending timers
    scramble,       \* a TextScramble: its fields, the element's content, frames, promise
    push,           \* per particle or node: the pointer interaction of the last frame
    scan,           \* the index pairs the last connection scan tested, in order
    lines           \* the connection lines stroked in the last frame, in order

ncVars == << reducedMotion, width, height, particleCount, particles, mouseX, mouseY,
             xflips, yflips >>

appScene == << isMobile, annRect, nodes, signals, localMouse, bgW, bgH, bgParticles,
              bgResets, screenW, nodeTimers, surface >>

appVars == << mouse, appScene >>

widgetVars == << deb, thr, engine, scramble >>

uiVars == << dom, rafPending, secrets, legacy, boot, term, menu, widgetVars >>

canvasVars == << frames, ncVars, appVars, gen, push, scan, lines, ops >>

vars == << page, frames, ncVars, appVars, gen, push, scan, lines, ops, error, uiVars >>

\* ----------------------------------------------------- components at rest
\* SystemSecrets after its constructor
SecretsOff == [ keyBuffer |-> << >>, typed |-> 0, accent |-> "" ]

\* the typing effect, navbar and orb before the script has touched them
LegacyOff == [ roleIndex |-> 0, charIndex |-> 0, isDeleting |-> FALSE, shown |-> 0,
               navbar |-> "", blur |-> FALSE, orb |-> << 0, 0 >> ]

\* the page before BootSequence.init
BootOff == [ step |-> 0, logStep |-> 0, glitch |-> FALSE, glitchTimer |-> FALSE,
             stepTimer |-> FALSE, fadeTimer |-> FALSE, overflow |-> "", isBooted |-> FALSE,
             opacity |-> "", display |-> "" ]

\* the contact form as the page delivers it
TermOff == [ fields |-> << FALSE, FALSE, FALSE >>, status |-> "", label |-> "",
             disabled |-> FALSE, background |-> "", shake |-> FALSE, shakeTimers |-> 0,
             flows |-> << >>, log |-> << >> ]

\* MobileMenuController after its constructor
MenuOff == [ isOpen |-> FALSE, sidebarActive |-> FALSE, toggleActive |-> FALSE,
             last |-> [ kind |-> "none", target |-> "none", wasOpen |-> FALSE ] ]

\* a wrapped function that has not been called: no timer, no invocation.
\* timer is the wrapper's debounceTimer (0 while undefined), pending the timers
\* of the page that have not fired or been cleared.
DebOff == [ now |-> 0, timer |-> 0, nextId |-> 1, pending |-> { }, calls |-> 0,
            bursts |-> 0, lastCall |-> [ at |-> 0, arg |-> 0 ], invoked |-> << >> ]

\* the same for Utils.throttle; inThrottle is undefined (falsy) at first
ThrOff == [ now |-> 0, inThrottle |-> FALSE, pending |-> { }, calls |-> 0, dropped |-> 0,
            lastCall |-> [ at |-> 0, arg |-> 0 ], invoked |-> << >> ]

\* TypingEngine before its constructor; phrases holds the lengths of the
\* phrases, text the length of the prefix the element shows
EngineOff == [ phrases |-> << >>, phraseIndex |-> 0, charIndex |-> 0, isDeleting |-> FALSE,
               isWaiting |-> FALSE, text |-> 0, timers |-> << >> ]

\* TextScramble before any setText: inner is what the element shows, html the
\* last string assigned to innerHTML, target the newText of the last setText,
\* pending the animation frames requested and neither run nor cancelled
ScrambleOff == [ inner |-> << >>, html |-> << >>, target |-> << >>, queue |-> << >>,
                 frame |-> 0, frameRequest |-> 0, nextId |-> 1, pending |-> { },
                 resolved |-> 0, updates |-> 0, setTexts |-> 0 ]

\* the wrapped functions and text effects are not followed on this page
WidgetIdle ==
    /\ deb = DebOff
    /\ thr = ThrOff
    /\ engine = EngineOff
    /\ scramble = ScrambleOff

\* the components that are not followed on this page
UiIdle ==
    /\ secrets = SecretsOff
    /\ legacy = LegacyOff
    /\ boot = BootOff
    /\ term = TermOff
    /\ menu = MenuOff
    /\ WidgetIdle

\* ============================================================ NeuralCanvas
\* this.mouseRadius
mouseRadius == 150

\* SYSTEM_CONFIG.animation.connectionRadius
connectionRadius == 150

\* (mutant) the desktop tier starts at width 1000
NCTierCountFrom1000(w) == IF w >= 1000 THEN NCCountDesktop ELSE NCCountMobile

\* particles of the tier of a viewport width (the code: width > 1000 ? 120 : 60)
NCTierCount(w) == IF w > 1000 THEN NCCountDesktop ELSE NCCountMobile

\* one particle of createParticles; born tells the objects of one createParticles
\* call from those of another
NCNewParticle(seed, i, w, h, g) ==
    LET r == NCDraw(seed, i)
    IN  [ born |-> g,
          x   |-> (r[1] * U(w)) \div RandDen,
          y   |-> (r[2] * U(h)) \div RandDen,
          vx  |-> RoundDiv((2 * r[3] - RandDen) * 3 * Scale, 4 * RandDen),
          vy  |-> RoundDiv((2 * r[4] - RandDen) * 3 * Scale, 4 * RandDen),
          nan |-> FALSE ]

NCCreateParticles(seed, count, w, h, g) ==
    [ i \in 1 .. count |-> NCNewParticle(seed, i, w, h, g) ]

\* The pointer interaction of one particle or node in one frame: hit (the pointer
\* acted), d (distance), force (the strength factor as a fraction), (dx, dy) (the
\* offset from the particle to the pointer), (px, py) (the displacement applied).
NoPush == [ hit |-> FALSE, d |-> 0, force |-> <<0, 1>>, dx |-> 0, dy |-> 0,
            px |-> 0, py |-> 0 ]

\* (mutant) the strength grows with the distance: distance / mouseRadius
NCForceGrowing(d) == << d, U(mouseRadius) >>

\* the repel strength factor of draw(): force = (mouseRadius - distance) / mouseRadius,
\* as the fraction <<numerator, denominator>> in units
NCForce(d) == << U(mouseRadius) - d, U(mouseRadius) >>

\* the test of draw() that lets the pointer act: distance < this.mouseRadius
NCInReach(d) == d < U(mouseRadius)

\* (mutant) the displacement is added to the offset instead of subtracted: attract
NCPointerAttract(x, y, mx, my) ==
    LET dx == U(mx) - x
        dy == U(my) - y
        d  == Hypot(dx, dy)
        f  == NCForce(d)
    IN  IF ~NCInReach(d) THEN [ NoPush EXCEPT !.d = d, !.dx = dx, !.dy = dy ]
        ELSE [ hit |-> TRUE, d |-> d, force |-> f, dx |-> dx, dy |-> dy,
               px |-> IF d = 0 THEN 0 ELSE RoundDiv(dx * f[1] * 2 * Scale, d * f[2]),
               py |-> IF d = 0 THEN 0 ELSE RoundDiv(dy * f[1] * 2 * Scale, d * f[2]) ]

\* The pointer interaction of draw() for a particle that has moved to (x, y):
\* the offset to the pointer, the distance, the force and the displacement.
NCPointer(x, y, mx, my) ==
    LET dx == U(mx) - x
        dy == U(my) - y
        d  == Hypot(dx, dy)
        f  == NCForce(d)
    IN  IF ~NCInReach(d) THEN [ NoPush EXCEPT !.d = d, !.dx = dx, !.dy = dy ]
        ELSE [ hit |-> TRUE, d |-> d, force |-> f, dx |-> dx, dy |-> dy,
               px |-> IF d = 0 THEN 0 ELSE -RoundDiv(dx * f[1] * 2 * Scale, d * f[2]),
               py |-> IF d = 0 THEN 0 ELSE -RoundDiv(dy * f[1] * 2 * Scale, d * f[2]) ]

\* draw(), lines 1466-1488, for one particle: move, bounce, pointer interaction.
\* A NaN position stays NaN: every comparison with it is false.
NCStep(p, mx, my, w, h) ==
    IF p.nan THEN p
    ELSE LET x1 == p.x + p.vx
             y1 == p.y + p.vy
             m  == NCPointer(x1, y1, mx, my)
         IN  [ born |-> p.born,
               x   |-> x1 + m.px,
               y   |-> y1 + m.py,
               vx  |-> IF x1 < 0 \/ x1 > U(w) THEN -p.vx ELSE p.vx,
               vy  |-> IF y1 < 0 \/ y1 > U(h) THEN -p.vy ELSE p.vy,
               nan |-> m.hit /\ m.d = 0 ]

\* what the pointer did to the particle in that step
NCPushOf(p, mx, my) ==
    IF p.nan THEN NoPush ELSE NCPointer(p.x + p.vx, p.y + p.vy, mx, my)

\* the boundary check of that step saw the particle outside on the x (y) axis
NCOutX(p, w) == ~p.nan /\ (p.x + p.vx < 0 \/ p.x + p.vx > U(w))

NCOutY(p, h) == ~p.nan /\ (p.y + p.vy < 0 \/ p.y + p.vy > U(h))

\* ------------------------------------------------------- connection scans
\* The index pairs of the nested loops "for a; for b = a + first", in loop order.
RECURSIVE PairScan(_, _, _, _)
PairScan(a, b, n, first) ==
    IF a > n THEN << >>
    ELSE IF b > n THEN PairScan(a + 1, a + 1 + first, n, first)
    ELSE << <<a, b>> >> \o PairScan(a, b + 1, n, first)

\* connectParticles: for (b = a; ...)
NCScan(n) == PairScan(1, 1, n, 0)

\* squared distance of two particles
Dist2(p, q) == (p.x - q.x) * (p.x - q.x) + (p.y - q.y) * (p.y - q.y)

\* (mutant) dist <= maxDist
NearOrAt(p, q, maxDist) == Dist2(p, q) <= U(maxDist) * U(maxDist)

\* the test of both connection scans: dist < maxDist
Near(p, q, maxDist) == Dist2(p, q) < U(maxDist) * U(maxDist)

\* connectParticles draws the pair (never when a coordinate is NaN)
NCLinked(p, q) == ~p.nan /\ ~q.nan /\ Near(p, q, connectionRadius)

\* (mutant) dist / maxDist: the fade runs the wrong way
OpacityInverted(d, maxDist) == << d, U(maxDist) >>

\* 1 - dist / maxDist as a fraction
Opacity(d, maxDist) == << U(maxDist) - d, U(maxDist) >>

\* the alpha of a NeuralCanvas line: opacity * 0.2
NCAlpha(d) == << Opacity(d, connectionRadius)[1], Opacity(d, connectionRadius)[2] * 5 >>

NCStroke(ps, pr) ==
    LET d == Sqrt(Dist2(ps[pr[1]], ps[pr[2]]))
    IN  [ a |-> pr[1], b |-> pr[2], d |-> d, alpha |-> NCAlpha(d) ]

NCConnect(ps) ==
    LET drawn == SelectSeq(NCScan(Len(ps)),
                           LAMBDA pr : NCLinked(ps[pr[1]], ps[pr[2]]))
    IN  [ k \in 1 .. Len(drawn) |-> NCStroke(ps, drawn[k]) ]

\* the operations of one frame on the particles: a position update, a filled circle,
\* a connection line
StepOp(i) == [ op |-> "step", a |-> i, b |-> i ]

CircleOp(i) == [ op |-> "circle", a |-> i, b |-> i ]

LineOps(ls) == [ k \in 1 .. Len(ls) |-> [ op |-> "line", a |-> ls[k].a, b |-> ls[k].b ] ]

\* draw(): each particle is moved and at once drawn as a circle (lines 1463-1495),
\* then connectParticles() strokes the lines ls (line 1498)
NCFrameOps(n, ls) ==
    [ k \in 1 .. 2 * n |-> IF k % 2 = 1 THEN StepOp((k + 1) \div 2) ELSE CircleOp(k \div 2) ]
    \o LineOps(ls)

\* the Application script is not loaded on this page
AppIdle ==
    /\ mouse = [ x |-> -9999, y |-> -9999, isActive |-> FALSE, isClicking |-> FALSE ]
    /\ isMobile = FALSE
    /\ annRect = [ left |-> 0, top |-> 0, w |-> 0, h |-> 0 ]
    /\ nodes = << >>
    /\ signals = << >>
    /\ localMouse = << -9999, -9999 >>
    /\ bgW = 0
    /\ bgH = 0
    /\ bgParticles = << >>
    /\ bgResets = 0
    /\ screenW = 0
    /\ nodeTimers = 0
    /\ surface = "ok"

\* ---------------------------------------------------------------- actions
\* The state when init() is about to call animate() for the first time:
\* resize() and createParticles() have run, no listener is registered yet.
NCInit ==
    /\ page = "nc"
    /\ frames = 0
    /\ reducedMotion \in BOOLEAN
    /\ \E vp \in Viewports, seed \in NCSeeds :
          /\ width = vp[1]
          /\ height = vp[2]
          /\ particleCount = NCTierCount(vp[1])
          /\ particles = NCCreateParticles(seed, NCTierCount(vp[1]), vp[1], vp[2], 0)
    /\ gen = 0
    /\ mouseX = 0
    /\ mouseY = 0
    /\ push = [ i \in 1 .. Len(particles) |-> NoPush ]
    /\ xflips = [ i \in 1 .. Len(particles) |-> 0 ]
    /\ yflips = [ i \in 1 .. Len(particles) |-> 0 ]
    /\ scan = << >>
    /\ lines = << >>
    /\ ops = << >>
    /\ error = FALSE
    /\ dom = { "canvas" }
    /\ rafPending = 1
    /\ UiIdle
    /\ AppIdle

\* animate(): one animation frame; draw() unless reduced motion is preferred.
NCAnimate ==
    /\ page = "nc"
    /\ frames < MaxFrames
    /\ frames' = frames + 1
    /\ IF reducedMotion
       THEN UNCHANGED << particles, push, xflips, yflips, scan, lines, ops >>
       ELSE LET ps == [ i \in 1 .. Len(particles) |->
                          NCStep(particles[i], mouseX, mouseY, width, height) ]
            IN  /\ particles' = ps
                /\ push' = [ i \in 1 .. Len(particles) |->
                               NCPushOf(particles[i], mouseX, mouseY) ]
                /\ xflips' = [ i \in 1 .. Len(particles) |->
                               IF NCOutX(particles[i], width) THEN xflips[i] + 1 ELSE 0 ]
                /\ yflips' = [ i \in 1 .. Len(particles) |->
                               IF NCOutY(particles[i], height) THEN yflips[i] + 1 ELSE 0 ]
                /\ scan' = NCScan(Len(ps))
                /\ lines' = NCConnect(ps)
                /\ ops' = NCFrameOps(Len(ps), NCConnect(ps))
    /\ UNCHANGED << page, reducedMotion, width, height, particleCount, mouseX, mouseY,
                    appVars, gen, error, uiVars >>

\* handleMouseMove(e); the listener exists once the first frame has been drawn
NCHandleMouseMove ==
    /\ page = "nc"
    /\ frames >= 1
    /\ \E m \in MousePoints :
          /\ mouseX' = m[1]
          /\ mouseY' = m[2]
    /\ UNCHANGED << page, frames, reducedMotion, width, height, particleCount, particles,
                    push, xflips, yflips, scan, lines, ops, appVars, gen, error, uiVars >>

\* resize(): new canvas size (which clears the canvas), particle count of the
\* tier, a fresh particle set
NCResize ==
    /\ page = "nc"
    /\ frames >= 1
    /\ gen < MaxResizes
    /\ gen' = gen + 1
    /\ \E vp \in Viewports, seed \in NCSeeds :
          /\ width' = vp[1]
          /\ height' = vp[2]
          /\ particleCount' = NCTierCount(vp[1])
          /\ particles' = NCCreateParticles(seed, NCTierCount(vp[1]), vp[1], vp[2], gen + 1)
          /\ push' = [ i \in 1 .. NCTierCount(vp[1]) |-> NoPush ]
          /\ xflips' = [ i \in 1 .. NCTierCount(vp[1]) |-> 0 ]
          /\ yflips' = [ i \in 1 .. NCTierCount(vp[1]) |-> 0 ]
    /\ scan' = << >>
    /\ lines' = << >>
    /\ ops' = << >>
    /\ UNCHANGED << page, frames, reducedMotion, mouseX, mouseY, appVars, error, uiVars >>

\* ============================================================= Application
\* window sizes and the place of the hero canvas in the page (pixels)
AppLayouts ==
    { [ vw |-> 1400, vh |-> 700, ann |-> [ left |-> 700, top |-> 100, w |-> 560, h |-> 420 ] ],
      [ vw |-> 700,  vh |-> 700, ann |-> [ left |-> 0,   top |-> 100, w |-> 700, h |-> 400 ] ] }

\* the window a page is loaded in: the page with signals is loaded in the wide
\* window and meets the narrow one in a resize
StartLayouts(pg) ==
    IF pg = "appSignals" THEN { lay \in AppLayouts : lay.vw >= 768 } ELSE AppLayouts

\* pointer and touch positions (clientX, clientY) an input event can report
AppPoints == { <<800, 300>>, <<300, 300>> }

\* (mutant) the inactive pointer is parked on the canvas origin
SentinelOnCanvas == 0

\* STATE.mouse before any input, and after handleTouchEnd
Sentinel == -9999

\* Streams of Math.random() draws for createNodes
AnnStreams == << <<50, 0, 99, 25, 75>>, <<99, 10, 40, 0, 60, 80, 30>> >>

AnnRand(seed, j) == AnnStreams[seed][(j % Len(AnnStreams[seed])) + 1]

\* Streams of draws for BackgroundParticle.reset, five per particle: x, y, vx, vy, life
BGStreams ==
    << << <<50, 10, 50, 50, 0>>,  <<50, 30, 50, 50, 0>>,  <<50, 20, 50, 50, 0>> >>,
       << <<0, 50, 0, 50, 5>>,    <<50, 0, 50, 0, 99>>,   <<99, 99, 99, 99, 50>> >>,
       << <<30, 30, 50, 50, 0>>,  <<30, 30, 50, 50, 0>>,  <<30, 35, 0, 99, 1>> >> >>

BGSeeds == 1 .. Len(BGStreams)

BGDraw(seed, i) == BGStreams[seed][((i - 1) % Len(BGStreams[seed])) + 1]

\* -------------------------------------------------------------- NeuralNode
\* CONFIG.ann.mouseRadius
annMouseRadius == 250

\* CONFIG.ann.mouseForce
mouseForce == 2

\* createNodes: layerCount, nodesPerLayerBase and variance of the two tiers
LayerCount(mobile) == IF mobile THEN 4 ELSE 6

NodesPerLayerBase(mobile) == IF mobile THEN 4 ELSE 7

Variance(mobile) == IF mobile THEN 1 ELSE 2

\* Utils.randomInt(min, max) for the draw k
RandomInt(k, min, max) == min + (k * (max - min + 1)) \div RandDen

\* the number of nodes createNodes puts in layer l (0-based)
LayerSize(seed, l, mobile) ==
    NodesPerLayerBase(mobile) + RandomInt(AnnRand(seed, 17 * l), -Variance(mobile), Variance(mobile))

\* new NeuralNode(x, y, id) of layer l, i-th of count nodes (0-based), canvas w x h
NewNode(seed, l, i, count, w, h, mobile) ==
    LET x == RoundDiv((l + 1) * U(w), LayerCount(mobile) + 1)
        y == RoundDiv((i + 1) * U(h), count + 1)
               + U(-30) + RoundDiv(AnnRand(seed, 17 * l + 2 * i + 1) * U(60), RandDen)
        r == U(4) + RoundDiv(AnnRand(seed, 17 * l + 2 * i + 2) * U(8), RandDen)
    IN  [ layer |-> l, bx |-> x, by |-> y, x |-> x, y |-> y, vx |-> 0, vy |-> 0,
          activation |-> 0, baseRadius |-> r, radius |-> r ]

RECURSIVE CreateLayers(_, _, _, _, _)
CreateLayers(seed, l, w, h, mobile) ==
    IF l >= LayerCount(mobile) THEN << >>
    ELSE LET count == LayerSize(seed, l, mobile)
         IN  [ i \in 1 .. count |-> NewNode(seed, l, i - 1, count, w, h, mobile) ]
             \o CreateLayers(seed, l + 1, w, h, mobile)

\* createConnections for the node i of ns: the indices of the nodes it connects
\* to, in push order.  Every node of the next layer is taken when its draw is
\* above 0.005; a node left without any takes one at random (the test of line
\* 652 parses as (layer < isMobile) ? 3 : 5 and so always passes).
Connections(seed, ns, i) ==
    LET pot   == SelectSeq([ j \in 1 .. Len(ns) |-> j ],
                           LAMBDA j : ns[j].layer = ns[i].layer + 1)
        taken == SelectSeq(pot, LAMBDA j : AnnRand(seed, 31 * i + j) * 1000 > 5 * RandDen)
    IN  IF taken = << >> /\ pot # << >>
        THEN << pot[(AnnRand(seed, 31 * i) * Len(pot)) \div RandDen + 1] >>
        ELSE taken

\* createNodes (the node list; activations are in hundredths): the nodes of the
\* g-th call with their connections.  lift is the activation a node has gained
\* from activate() calls since its last update().
CreateNodes(seed, w, h, mobile, g) ==
    LET ns == CreateLayers(seed, 0, w, h, mobile)
    IN  [ i \in 1 .. Len(ns) |->
            ns[i] @@ [ born |-> g, lift |-> 0, connections |-> Connections(seed, ns, i) ] ]

\* the strength factor of update(): magnitude = (mouseRadius - dist) / mouseRadius
NodeForce(d) == << U(annMouseRadius) - d, U(annMouseRadius) >>

\* the test of update() that lets the pointer act: dist < CONFIG.ann.mouseRadius
NodeInReach(d) == d < U(annMouseRadius)

\* The pointer interaction of update(), lines 525-538, for a node at (x, y): the
\* repulsion added to the acceleration.  normalize() leaves a zero vector as it is.
NodePointer(x, y, mv, active) ==
    LET dx == U(mv[1]) - x
        dy == U(mv[2]) - y
        d  == Hypot(dx, dy)
        f  == NodeForce(d)
        m  == RoundDiv(f[1] * mouseForce * 5 * Scale, f[2])
    IN  IF ~active THEN NoPush
        ELSE IF ~NodeInReach(d) THEN [ NoPush EXCEPT !.d = d, !.dx = dx, !.dy = dy ]
        ELSE [ hit |-> TRUE, d |-> d, force |-> f, dx |-> dx, dy |-> dy,
               px |-> IF d = 0 THEN 0 ELSE RoundDiv(-dx * m, d),
               py |-> IF d = 0 THEN 0 ELSE RoundDiv(-dy * m, d) ]

\* NeuralNode.update(mousePos); the acceleration is zero between two updates
NodeUpdate(n, mv, active) ==
    LET m  == NodePointer(n.x, n.y, mv, active)
        ax == RoundDiv((n.bx - n.x) * 5, 100) + m.px
        ay == RoundDiv((n.by - n.y) * 5, 100) + m.py
        vx == RoundDiv((n.vx + ax) * 92, 100)
        vy == RoundDiv((n.vy + ay) * 92, 100)
        a1 == IF m.hit /\ n.activation + 1 <= 100 THEN n.activation + 1
              ELSE IF m.hit THEN 100 ELSE n.activation
        a2 == IF a1 - 1 >= 0 THEN a1 - 1 ELSE 0
    IN  [ n EXCEPT !.x = n.x + vx, !.y = n.y + vy, !.vx = vx, !.vy = vy,
                   !.activation = a2,
                   !.lift = 0,
                   !.radius = n.baseRadius + RoundDiv(a2 * 5 * Scale, 100) ]

\* (mutant) activate without the cap at 1
ActivateUncapped(n, amount) ==
    [ n EXCEPT !.activation = @ + amount, !.lift = @ + amount ]

\* NeuralNode.activate(amount), amount in hundredths
Activate(n, amount) ==
    LET a == IF n.activation + amount < 100 THEN n.activation + amount ELSE 100
    IN  [ n EXCEPT !.activation = a, !.lift = @ + (a - n.activation) ]

\* ------------------------------------------------------------ NeuralSignal
\* The Math.random() draws of one NeuralNetworkSystem.update: whether
\* spawnSignal runs (a draw below 0.000001), whether propagateSignals adds a
\* signal (a draw below 0.001), and the draws that pick the nodes and the speed.
NoSignalDraws == [ spawn |-> FALSE, prop |-> FALSE, a |-> 0, b |-> 0, speed |-> 0 ]

SignalDraws ==
    { NoSignalDraws,
      [ spawn |-> TRUE,  prop |-> FALSE, a |-> 0,  b |-> 0,  speed |-> 99 ],
      [ spawn |-> TRUE,  prop |-> TRUE,  a |-> 0,  b |-> 99, speed |-> 0 ],
      [ spawn |-> FALSE, prop |-> TRUE,  a |-> 99, b |-> 50, speed |-> 99 ] }

\* the pages with signals take every draw, the others never add a signal
FrameDraws(pg) == IF pg = "appSignals" THEN SignalDraws ELSE { NoSignalDraws }

\* arr[Math.floor(Math.random() * arr.length)] for the draw r
Pick(arr, r) == arr[(r * Len(arr)) \div RandDen + 1]

\* new NeuralSignal(start, end) between nodes of the g-th node set: progress and
\* speed are in thousandths, speed = Utils.random(0.005, 0.015)
NewSignal(start, end, g, r) ==
    [ start |-> start, end |-> end, born |-> g, progress |-> 0,
      speed |-> ((500 + 10 * r) * SignalSpeedUp) \div 100, active |-> TRUE ]

\* spawnSignal(): a signal from a node of layer 0 that has a connection
SpawnSignal(st, d) ==
    LET first == SelectSeq([ j \in 1 .. Len(st.nodes) |-> j ],
                           LAMBDA j : st.nodes[j].layer = 0)
        start == Pick(first, d.a)
        conn  == st.nodes[start].connections
    IN  IF st.nodes = << >> \/ first = << >> \/ conn = << >> THEN st
        ELSE [ nodes |-> [ st.nodes EXCEPT ![start] = Activate(@, 50) ],
               signals |-> Append(st.signals,
                                  NewSignal(start, Pick(conn, d.b), st.nodes[start].born,
                                            d.speed)) ]

\* propagateSignals(): a signal from a node whose activation is above 0.5
PropagateSignals(st, d) ==
    LET act == SelectSeq([ j \in 1 .. Len(st.nodes) |-> j ],
                         LAMBDA j : st.nodes[j].activation > 50
                                      /\ st.nodes[j].connections # << >>)
        source == Pick(act, d.a)
    IN  IF act = << >> THEN st
        ELSE [ st EXCEPT !.signals =
                 Append(@, NewSignal(source, Pick(st.nodes[source].connections, d.b),
                                     st.nodes[source].born, d.speed)) ]

\* NeuralSignal.update() without its call of activate
SignalUpdate(sg) ==
    [ sg EXCEPT !.progress = @ + sg.speed, !.active = (sg.progress + sg.speed < 1000) ]

\* (mutant) the loop of update() removes no signal
SignalStaysAlways(sg) == TRUE

\* the loop of update() keeps a signal in the list while it is active
SignalStays(sg) == sg.active

\* the loop of lines 712-717, from index i down to 1: update each signal, let an
\* arriving one activate its end node, and splice out the inactive ones
RECURSIVE UpdateSignals(_, _)
UpdateSignals(st, i) ==
    IF i = 0 THEN st
    ELSE LET sg == SignalUpdate(st.signals[i])
             ns == IF sg.active THEN st.nodes
                   ELSE [ st.nodes EXCEPT ![sg.end] = Activate(@, 30) ]
             ss == IF SignalStays(sg) THEN [ st.signals EXCEPT ![i] = sg ]
                   ELSE Without(st.signals, i)
         IN  UpdateSignals([ nodes |-> ns, signals |-> ss ], i - 1)

\* NeuralNetworkSystem.update after the nodes' update(): lines 706-717
SignalFrame(ns, ss, d) ==
    LET s1 == IF d.spawn THEN SpawnSignal([ nodes |-> ns, signals |-> ss ], d)
              ELSE [ nodes |-> ns, signals |-> ss ]
        s2 == IF d.prop THEN PropagateSignals(s1, d) ELSE s1
    IN  UpdateSignals(s2, Len(s2.signals))

\* NeuralNetworkSystem.update, lines 688-700: the pointer in canvas coordinates,
\* or the sentinel when it is inactive or outside the canvas rectangle
LocalMouse(ms, rect) ==
    IF /\ ms.isActive
       /\ ms.x >= rect.left /\ ms.x <= rect.left + rect.w
       /\ ms.y >= rect.top  /\ ms.y <= rect.top + rect.h
    THEN << ms.x - rect.left, ms.y - rect.top >>
    ELSE << Sentinel, Sentinel >>

\* ------------------------------------------------------ BackgroundParticle
\* CONFIG.bg.connectionDistance
connectionDistance == 140

BGTierCount(mobile) == IF mobile THEN BGCountMobile ELSE BGCountDesktop

\* reset() with the draws r; baseSpeed is 0.3; life is kept in 1/RandDen
BGReset(p, r) ==
    [ p EXCEPT !.x = (r[1] * U(p.w)) \div RandDen,
               !.y = (r[2] * U(p.h)) \div RandDen,
               !.vx = RoundDiv((2 * r[3] - RandDen) * 3 * Scale, 20 * RandDen),
               !.vy = RoundDiv((2 * r[4] - RandDen) * 3 * Scale, 20 * RandDen),
               !.life = r[5] * 100 ]

\* new BackgroundParticle(w, h), an object of the g-th createParticles call
BGNewParticle(r, w, h, g) ==
    BGReset([ born |-> g, w |-> w, h |-> h, x |-> 0, y |-> 0, vx |-> 0, vy |-> 0,
              life |-> 0 ], r)

\* the particle has left [0, w] x [0, h]
BGOutside(p) == p.x < 0 \/ p.x > U(p.w) \/ p.y < 0 \/ p.y > U(p.h)

\* update(), lines 775-777: the move
BGMove(p) == [ p EXCEPT !.x = p.x + p.vx, !.y = p.y + p.vy, !.life = p.life + RandDen ]

\* the move takes the particle out of its bounds
BGLeaves(p) == BGOutside(BGMove(p))

\* (mutant) update() without the reset
BGUpdateNoReset(p, r) == BGMove(p)

\* BackgroundParticle.update(); r are the draws a reset would use
BGUpdate(p, r) == IF BGLeaves(p) THEN BGReset(BGMove(p), r) ELSE BGMove(p)

\* BackgroundSystem.draw: for (j = i + 1; ...)
BGScan(n) == PairScan(1, 2, n, 1)

\* globalAlpha of a BackgroundSystem line: 0.15 * (1 - dist / maxDist)
BGAlpha(d) ==
    << Opacity(d, connectionDistance)[1] * 3, Opacity(d, connectionDistance)[2] * 20 >>

BGLinked(p, q) == Near(p, q, connectionDistance)

BGStroke(ps, pr) ==
    LET d == Sqrt(Dist2(ps[pr[1]], ps[pr[2]]))
    IN  [ a |-> pr[1], b |-> pr[2], d |-> d, alpha |-> BGAlpha(d) ]

BGConnect(ps) ==
    LET drawn == SelectSeq(BGScan(Len(ps)), LAMBDA pr : BGLinked(ps[pr[1]], ps[pr[2]]))
    IN  [ k \in 1 .. Len(drawn) |-> BGStroke(ps, drawn[k]) ]

\* BackgroundSystem.draw from particle i on: the circle of particle i (line 835),
\* then the lines from i to the later particles (lines 837-852)
RECURSIVE BGDrawOps(_, _, _)
BGDrawOps(i, n, ls) ==
    IF i > n THEN << >>
    ELSE << CircleOp(i) >> \o SelectSeq(LineOps(ls), LAMBDA o : o.a = i)
         \o BGDrawOps(i + 1, n, ls)

\* (mutant) draw() strokes all lines first and the circles last
BGFrameOpsLinesFirst(n, ls) ==
    [ i \in 1 .. n |-> StepOp(i) ] \o LineOps(ls) \o [ i \in 1 .. n |-> CircleOp(i) ]

\* one Application.loop(): update() steps every particle (line 823), then draw()
BGFrameOps(n, ls) == [ i \in 1 .. n |-> StepOp(i) ] \o BGDrawOps(1, n, ls)

\* ---------------------------------------------------------------- actions
\* the NeuralCanvas script is not loaded on this page
NCIdle ==
    /\ reducedMotion = FALSE
    /\ width = 0
    /\ height = 0
    /\ particleCount = 0
    /\ particles = << >>
    /\ mouseX = 0
    /\ mouseY = 0
    /\ xflips = << >>
    /\ yflips = << >>

\* The Application script is followed in three kinds of session: "app" with
\* pointer and touch input, "appResize" with window resizes and with pages whose
\* canvases are missing or give no 2D context, "appSignals" with the rare draws
\* that add signals, the pointer moving and one window resize.
AppPages == { "app", "appResize", "appSignals" }

\* the streams of draws a session takes from: one in the sessions with signals
SeedsOf(pg, all) == IF pg = "appSignals" THEN { 1 } ELSE all

\* what getContext and getElementById can give for the two canvases of the page
Surfaces == { "ok", "nocontext", "missing" }

NoRect == [ left |-> 0, top |-> 0, w |-> 0, h |-> 0 ]

\* The state when boot() is about to start the loop: new Application() has built
\* the input handler, the node network and the background particles.  Without a
\* canvas element both systems stay uninitialized; with a canvas that gives no
\* context the CanvasController constructor throws in resize() (ctx.scale, line
\* 433) and new Application() never returns.
AppInit ==
    /\ page \in AppPages
    /\ frames = 0
    /\ NCIdle
    /\ mouse = [ x |-> Sentinel, y |-> Sentinel, isActive |-> FALSE, isClicking |-> FALSE ]
    /\ surface \in IF page = "appResize" THEN Surfaces ELSE { "ok" }
    /\ \E lay \in StartLayouts(page), seed \in SeedsOf(page, BGSeeds) :
          /\ isMobile = (lay.vw < 768)
          /\ screenW = lay.vw
          /\ IF surface = "ok"
             THEN /\ annRect = lay.ann
                  /\ nodes = CreateNodes(((seed - 1) % Len(AnnStreams)) + 1,
                                         lay.ann.w, lay.ann.h, lay.vw < 768, 0)
                  /\ bgW = lay.vw
                  /\ bgH = lay.vh
                  /\ bgParticles = [ i \in 1 .. BGTierCount(lay.vw < 768) |->
                                       BGNewParticle(BGDraw(seed, i), lay.vw, lay.vh, 0) ]
             ELSE /\ annRect = NoRect
                  /\ nodes = << >>
                  /\ bgW = 0
                  /\ bgH = 0
                  /\ bgParticles = << >>
    /\ error = (surface = "nocontext")
    /\ dom = IF surface = "missing" THEN { } ELSE { "canvas" }
    /\ rafPending = IF surface = "nocontext" THEN 0 ELSE 1
    /\ UiIdle
    /\ gen = 0
    /\ signals = << >>
    /\ nodeTimers = 0
    /\ bgResets = 0
    /\ localMouse = << Sentinel, Sentinel >>
    /\ push = [ i \in 1 .. Len(nodes) |-> NoPush ]
    /\ scan = << >>
    /\ lines = << >>
    /\ ops = << >>

\* Application.loop(): update() then draw() of both systems; both return at once
\* while their system is not initialized.  The loop is started by boot(), which
\* is never reached when new Application() has thrown.
AppLoop ==
    /\ page \in AppPages
    /\ ~error
    /\ frames < MaxFrames
    /\ frames' = frames + 1
    /\ IF surface = "ok"
       THEN /\ localMouse' = LocalMouse(mouse, annRect)
            /\ push' = [ i \in 1 .. Len(nodes) |->
                           NodePointer(nodes[i].x, nodes[i].y, LocalMouse(mouse, annRect),
                                       mouse.isActive) ]
            /\ \E seed \in SeedsOf(page, BGSeeds) :
                  bgParticles' = [ i \in 1 .. Len(bgParticles) |->
                                     BGUpdate(bgParticles[i], BGDraw(seed, i)) ]
            /\ bgResets' = Cardinality({ i \in 1 .. Len(bgParticles) :
                                           BGLeaves(bgParticles[i]) })
            /\ scan' = BGScan(Len(bgParticles))
            /\ lines' = BGConnect(bgParticles')
            /\ ops' = BGFrameOps(Len(bgParticles), lines')
            /\ \E d \in FrameDraws(page) :
                  LET st == SignalFrame([ i \in 1 .. Len(nodes) |->
                                            NodeUpdate(nodes[i], LocalMouse(mouse, annRect),
                                                       mouse.isActive) ],
                                        signals, d)
                  IN  /\ nodes' = st.nodes
                      /\ signals' = st.signals
       ELSE UNCHANGED << localMouse, nodes, signals, push, bgParticles, bgResets, scan, lines,
                         ops >>
    /\ UNCHANGED << page, ncVars, mouse, isMobile, annRect, bgW, bgH, screenW, nodeTimers,
                    surface, gen, error, uiVars >>

\* (mutant) createParticles runs before the canvas has taken its new size
CanvasSizeBeforeResize(before, after) == before

\* The canvas size createParticles reads while 'resize' is emitted: the listener of
\* CanvasController.resize was registered (line 418) before the one of
\* BackgroundSystem.init (line 806), so the canvas already has its new size.
CanvasSizeAtCreate(before, after) == after

\* InputHandler.handleResize (after its debounce of 200 ms, so that the 100 ms
\* createNodes timer of the resize before has fired) and the 'resize' listeners
\* it emits to, in registration order: hero canvas resize, the createNodes
\* timer, background canvas resize, createParticles.  Systems that were not
\* initialized have registered no listener.
HandleResize ==
    /\ page \in { "appResize", "appSignals" }
    /\ gen < (IF page = "appResize" THEN MaxResizes ELSE 1)
    /\ nodeTimers = 0
    /\ gen' = gen + 1
    /\ \E lay \in AppLayouts, seed \in SeedsOf(page, BGSeeds) :
          LET size == CanvasSizeAtCreate(<< bgW, bgH >>, << lay.vw, lay.vh >>)
          IN  /\ page = "appSignals" => lay.vw # screenW
              /\ screenW' = lay.vw
              /\ isMobile' = (lay.vw < 768)
              /\ IF surface = "ok"
                 THEN /\ annRect' = lay.ann
                      /\ bgW' = lay.vw
                      /\ bgH' = lay.vh
                      /\ bgParticles' = [ i \in 1 .. BGTierCount(lay.vw < 768) |->
                                            BGNewParticle(BGDraw(seed, i), size[1], size[2],
                                                          gen + 1) ]
                      /\ nodeTimers' = nodeTimers + 1
                      /\ scan' = << >>
                      /\ lines' = << >>
                      /\ ops' = << >>
                 ELSE UNCHANGED << annRect, bgW, bgH, bgParticles, nodeTimers, scan, lines,
                                   ops >>
    /\ UNCHANGED << page, frames, ncVars, mouse, nodes, signals, localMouse, bgResets, surface,
                    push, error, uiVars >>

\* the timer of NeuralNetworkSystem.init's resize listener: createNodes()
CreateNodesTimeout ==
    /\ page \in { "appResize", "appSignals" }
    /\ nodeTimers > 0
    /\ nodeTimers' = nodeTimers - 1
    /\ \E seed \in SeedsOf(page, 1 .. Len(AnnStreams)) :
          nodes' = CreateNodes(seed, annRect.w, annRect.h, isMobile, gen)
    /\ signals' = << >>
    /\ push' = [ i \in 1 .. Len(nodes') |-> NoPush ]
    /\ UNCHANGED << page, frames, ncVars, mouse, isMobile, annRect, localMouse, bgW, bgH,
                    bgParticles, bgResets, screenW, surface, gen, scan, lines, ops, error, uiVars >>

\* InputHandler.handleMouseMove
HandleMouseMove ==
    /\ page \in { "app", "appSignals" }
    /\ page = "appSignals" => frames = 0
    /\ \E m \in AppPoints :
          mouse' = [ mouse EXCEPT !.x = m[1], !.y = m[2], !.isActive = TRUE ]
    /\ UNCHANGED << page, frames, ncVars, appScene, gen, push, scan, lines, ops, error, uiVars >>

\* InputHandler.handleMouseDown (the 'click' event it emits has no listener)
HandleMouseDown ==
    /\ page = "app"
    /\ mouse' = [ mouse EXCEPT !.isClicking = TRUE ]
    /\ UNCHANGED << page, frames, ncVars, appScene, gen, push, scan, lines, ops, error, uiVars >>

\* InputHandler.handleMouseUp
HandleMouseUp ==
    /\ page = "app"
    /\ mouse' = [ mouse EXCEPT !.isClicking = FALSE ]
    /\ UNCHANGED << page, frames, ncVars, appScene, gen, push, scan, lines, ops, error, uiVars >>

\* InputHandler.handleTouchStart with one touch
HandleTouchStart ==
    /\ page = "app"
    /\ \E m \in AppPoints :
          mouse' = [ x |-> m[1], y |-> m[2], isActive |-> TRUE, isClicking |-> TRUE ]
    /\ UNCHANGED << page, frames, ncVars, appScene, gen, push, scan, lines, ops, error, uiVars >>

\* InputHandler.handleTouchMove with one touch
HandleTouchMove ==
    /\ page = "app"
    /\ \E m \in AppPoints :
          mouse' = [ mouse EXCEPT !.x = m[1], !.y = m[2] ]
    /\ UNCHANGED << page, frames, ncVars, appScene, gen, push, scan, lines, ops, error, uiVars >>

\* InputHandler.handleTouchEnd
HandleTouchEnd ==
    /\ page = "app"
    /\ mouse' = [ x |-> Sentinel, y |-> Sentinel, isActive |-> FALSE, isClicking |-> FALSE ]
    /\ UNCHANGED << page, frames, ncVars, appScene, gen, push, scan, lines, ops, error, uiVars >>

\* ============================================================== components
\* neither animation is followed on this page
CanvasIdle ==
    /\ NCIdle
    /\ AppIdle
    /\ frames = 0
    /\ gen = 0
    /\ push = << >>
    /\ scan = << >>
    /\ lines = << >>
    /\ ops = << >>

\* ----------------------------------------------------------- SystemSecrets
konamiCode == << "ArrowUp", "ArrowUp", "ArrowDown", "ArrowDown", "ArrowLeft",
                 "ArrowRight", "ArrowLeft", "ArrowRight", "b", "a" >>

\* Array.prototype.join('')
RECURSIVE Join(_)
Join(seq) == IF seq = << >> THEN "" ELSE Head(seq) \o Join(Tail(seq))

\* e.key of the next key press: the key the code has at this place of its
\* ten-key rhythm, or a key that is not in the code
NextKeys(n) == { konamiCode[(n % Len(konamiCode)) + 1], "x" }

\* checkInput, lines 2003-2006: push, and shift once the buffer is longer than the code
PushKey(buf, key) ==
    IF Len(buf) + 1 > Len(konamiCode) THEN Tail(Append(buf, key)) ELSE Append(buf, key)

\* checkInput, line 2008
KonamiEntered(buf) == Join(buf) = Join(konamiCode)

\* The NeuralCanvas engine page after DOMContentLoaded, seen from SystemSecrets:
\* new NeuralCanvas() has started one animation loop if the canvas exists.
KeysInit ==
    /\ page = "keys"
    /\ dom \in { { }, { "canvas" } }
    /\ rafPending = IF "canvas" \in dom THEN 1 ELSE 0
    /\ secrets = SecretsOff
    /\ legacy = LegacyOff
    /\ boot = BootOff
    /\ term = TermOff
    /\ menu = MenuOff
    /\ error = FALSE
    /\ WidgetIdle
    /\ CanvasIdle

\* checkInput(e) and, when the buffer spells the code, activateGodMode(): the
\* accent colour, then new NeuralCanvas(), whose init() calls animate() and so
\* requests one more animation frame, or whose constructor returns early without
\* a canvas, so that matrixCanvas.particles.forEach (line 2021) throws.
CheckInput ==
    /\ page = "keys"
    /\ secrets.typed < MaxKeys
    /\ \E key \in NextKeys(secrets.typed) :
          LET buf == PushKey(secrets.keyBuffer, key)
          IN  /\ secrets' = [ keyBuffer |-> buf, typed |-> secrets.typed + 1,
                              accent |-> IF KonamiEntered(buf) THEN "#ff00ff"
                                         ELSE secrets.accent ]
              /\ rafPending' = IF KonamiEntered(buf) /\ "canvas" \in dom
                               THEN rafPending + 1 ELSE rafPending
              /\ error' = (error \/ (KonamiEntered(buf) /\ "canvas" \notin dom))
    /\ UNCHANGED << page, canvasVars, dom, legacy, boot, term, menu, widgetVars >>

\* ------------------------------------------------- typing, navbar and orb
\* the lengths of the strings of roles
roles == << 25, 12, 16, 23 >>

\* window.innerWidth and innerHeight of the page of lines 1-110
LegacyViewport == << 1000, 600 >>

\* the elements of lines 4, 76 and 103; a page has all of them or lacks one
LegacyDoms ==
    { { "typing", "navbar", "orb" }, { "navbar", "orb" }, { "typing", "orb" },
      { "typing", "navbar" } }

\* typeEffect() on a page that has the typing element: substring(0, charIndex)
\* is shown, then charIndex steps and the phase may turn
TypeEffect(t) ==
    LET len == roles[t.roleIndex + 1]
        c   == IF t.isDeleting THEN t.charIndex - 1 ELSE t.charIndex + 1
        sh  == IF t.charIndex < 0 THEN 0 ELSE IF t.charIndex > len THEN len ELSE t.charIndex
    IN  IF ~t.isDeleting /\ c = len
        THEN [ t EXCEPT !.shown = sh, !.charIndex = c, !.isDeleting = TRUE ]
        ELSE IF t.isDeleting /\ c = 0
        THEN [ t EXCEPT !.shown = sh, !.charIndex = c, !.isDeleting = FALSE,
                        !.roleIndex = (t.roleIndex + 1) % Len(roles) ]
        ELSE [ t EXCEPT !.shown = sh, !.charIndex = c ]

\* The page after the script has run.  Without the typing element the first
\* typeEffect() (line 40) throws on typingElement.textContent and the script
\* stops before it registers a listener.
LegacyInit ==
    /\ page = "legacy"
    /\ dom \in LegacyDoms
    /\ legacy = IF "typing" \in dom THEN TypeEffect(LegacyOff) ELSE LegacyOff
    /\ error = ("typing" \notin dom)
    /\ rafPending = 0
    /\ secrets = SecretsOff
    /\ boot = BootOff
    /\ term = TermOff
    /\ menu = MenuOff
    /\ WidgetIdle
    /\ CanvasIdle

\* the timer of line 37: typeEffect()
TypeEffectTimeout ==
    /\ page = "legacy"
    /\ "typing" \in dom
    /\ legacy' = TypeEffect(legacy)
    /\ UNCHANGED << page, canvasVars, error, dom, rafPending, secrets, boot, term, menu, widgetVars >>

\* the scroll listener of lines 78-85 at window.scrollY = y
NavbarScroll ==
    /\ page = "legacy"
    /\ "typing" \in dom
    /\ \E y \in { 0, 100 } :
          IF "navbar" \in dom
          THEN /\ legacy' = IF y > 50
                            THEN [ legacy EXCEPT !.navbar = "rgba(0,0,0,0.6)", !.blur = TRUE ]
                            ELSE [ legacy EXCEPT !.navbar = "rgba(255,255,255,0.05)" ]
               /\ error' = error
          ELSE /\ legacy' = legacy
               /\ error' = TRUE
    /\ UNCHANGED << page, canvasVars, dom, rafPending, secrets, boot, term, menu, widgetVars >>

\* the mousemove listener of lines 105-110; the offset is kept in 1/40 pixel
OrbMouseMove ==
    /\ page = "legacy"
    /\ "typing" \in dom
    /\ \E m \in MousePoints :
          IF "orb" \in dom
          THEN /\ legacy' = [ legacy EXCEPT !.orb = << LegacyViewport[1] \div 2 - m[1],
                                                      LegacyViewport[2] \div 2 - m[2] >> ]
               /\ error' = error
          ELSE /\ legacy' = legacy
               /\ error' = TRUE
    /\ UNCHANGED << page, canvasVars, dom, rafPending, secrets, boot, term, menu, widgetVars >>

\* ------------------------------------------------------------ BootSequence
steps == << "Initializing Kernel...", "Loading Neural Weights...", "Mounting File System...",
            "Connecting to Global Grid...", "Calibrating Holograms...", "System Ready." >>

\* processStep: the log line and its glitch class (removed 200 ms later), and the
\* timer of 300 to 800 ms that resolves the step
ProcessStep(b, hasLog) ==
    [ b EXCEPT !.step = b.step + 1,
               !.logStep = IF hasLog THEN b.step + 1 ELSE @,
               !.glitch = IF hasLog THEN TRUE ELSE @,
               !.glitchTimer = IF hasLog THEN TRUE ELSE @,
               !.stepTimer = TRUE ]

\* complete()
Complete(b, hasLoader) ==
    [ b EXCEPT !.isBooted = TRUE,
               !.opacity = IF hasLoader THEN "0" ELSE @,
               !.fadeTimer = hasLoader ]

\* BootSequence.init() up to its first await: scrolling is disabled and the first
\* step is under way.
BootInit ==
    /\ page = "boot"
    /\ dom \in SUBSET { "loader", "log" }
    /\ boot = ProcessStep([ BootOff EXCEPT !.overflow = "hidden" ], "log" \in dom)
    /\ error = FALSE
    /\ rafPending = 0
    /\ secrets = SecretsOff
    /\ legacy = LegacyOff
    /\ term = TermOff
    /\ menu = MenuOff
    /\ WidgetIdle
    /\ CanvasIdle

\* the 200 ms timer of processStep
BootGlitchTimeout ==
    /\ page = "boot"
    /\ boot.glitchTimer
    /\ boot' = [ boot EXCEPT !.glitch = FALSE, !.glitchTimer = FALSE ]
    /\ UNCHANGED << page, canvasVars, error, dom, rafPending, secrets, legacy, term, menu, widgetVars >>

\* the step's timer resolves (after the shorter glitch timer): init() goes on
\* with the next step, or with complete() after the last
BootStepTimeout ==
    /\ page = "boot"
    /\ boot.stepTimer
    /\ ~boot.glitchTimer
    /\ boot' = IF boot.step < Len(steps)
               THEN ProcessStep(boot, "log" \in dom)
               ELSE Complete([ boot EXCEPT !.stepTimer = FALSE ], "loader" \in dom)
    /\ UNCHANGED << page, canvasVars, error, dom, rafPending, secrets, legacy, term, menu, widgetVars >>

\* the 800 ms timer of complete()
BootFadeTimeout ==
    /\ page = "boot"
    /\ boot.fadeTimer
    /\ boot' = [ boot EXCEPT !.fadeTimer = FALSE, !.display = "none",
                             !.overflow = "visible" ]
    /\ UNCHANGED << page, canvasVars, error, dom, rafPending, secrets, legacy, term, menu, widgetVars >>

\* ---------------------------------------------------------- TerminalSystem
\* (mutant) the form is refused only when every field is empty
InvalidAllEmpty(f) == ~f[1] /\ ~f[2] /\ ~f[3]

\* executeSend, line 1855: !name || !email || !message, on fields that tell
\* whether the input has text
Invalid(f) == ~f[1] \/ ~f[2] \/ ~f[3]

\* The page after new TerminalSystem(): with the terminal element the listeners
\* are registered, without it init() has returned at once.
TermInit ==
    /\ page = "terminal"
    /\ dom \in { { }, { "terminal" } }
    /\ term = TermOff
    /\ error = FALSE
    /\ rafPending = 0
    /\ secrets = SecretsOff
    /\ legacy = LegacyOff
    /\ boot = BootOff
    /\ menu = MenuOff
    /\ WidgetIdle
    /\ CanvasIdle

\* the user fills or empties one of the three inputs
TermInput ==
    /\ page = "terminal"
    /\ \E i \in 1 .. 3 : term' = [ term EXCEPT !.fields[i] = ~@ ]
    /\ UNCHANGED << page, canvasVars, error, dom, rafPending, secrets, legacy, boot, menu, widgetVars >>

\* the focus listener of an input: logStatus
TermFocus ==
    /\ page = "terminal"
    /\ "terminal" \in dom
    /\ term' = [ term EXCEPT !.status = "Input stream active" ]
    /\ UNCHANGED << page, canvasVars, error, dom, rafPending, secrets, legacy, boot, menu, widgetVars >>

\* the messages of a send, lines 1863, 1870, 1873 and 1883
SendMessages == << "Encrypting payload...", "Handshake established with server...",
                  "Payload delivered successfully.", "Ready for new transmission." >>

\* (mutant) a send that leaves the button enabled
BeginSendButtonEnabled(t) ==
    [ t EXCEPT !.status = SendMessages[1],
               !.label = "TRANSMITTING...",
               !.flows = Append(@, "wait1500"),
               !.log = IF t.flows = << >> THEN << SendMessages[1] >>
                       ELSE Append(@, SendMessages[1]) ]

\* executeSend, lines 1863-1868: the first message, the spinner label, the
\* disabled button and the 1500 ms timer of the first await.  flows holds the
\* pending timer of every executeSend() that has passed validation and not yet
\* reset the form; log holds the messages these calls have written since the
\* form was last at rest.
BeginSend(t) ==
    [ t EXCEPT !.status = SendMessages[1],
               !.label = "TRANSMITTING...",
               !.disabled = TRUE,
               !.flows = Append(@, "wait1500"),
               !.log = IF t.flows = << >> THEN << SendMessages[1] >>
                       ELSE Append(@, SendMessages[1]) ]

\* (mutant) a reset that leaves the inputs as they are
ResetFormKeepInputs(t, k) ==
    [ t EXCEPT !.label = "EXECUTE_SEND",
               !.background = "",
               !.disabled = FALSE,
               !.status = SendMessages[4],
               !.log = Append(@, SendMessages[4]),
               !.flows = Without(@, k) ]

\* the reset timer of lines 1877-1883, set by the k-th pending send
ResetForm(t, k) ==
    [ t EXCEPT !.fields = << FALSE, FALSE, FALSE >>,
               !.label = "EXECUTE_SEND",
               !.background = "",
               !.disabled = FALSE,
               !.status = SendMessages[4],
               !.log = Append(@, SendMessages[4]),
               !.flows = Without(@, k) ]

\* executeSend after the timer of its k-th pending send has fired
AfterTimer(t, k) ==
    CASE t.flows[k] = "wait1500" ->
           [ t EXCEPT !.status = SendMessages[2],
                      !.log = Append(@, SendMessages[2]),
                      !.flows[k] = "wait1000" ]
      [] t.flows[k] = "wait1000" ->
           [ t EXCEPT !.status = SendMessages[3],
                      !.log = Append(@, SendMessages[3]),
                      !.label = "SENT",
                      !.background = "success",
                      !.flows[k] = "wait3000" ]
      [] OTHER -> ResetForm(t, k)

\* a click on the send button (a disabled button gets none): executeSend() up to
\* its return or its first await
ExecuteSend ==
    /\ page = "terminal"
    /\ "terminal" \in dom
    /\ ~term.disabled
    /\ Invalid(term.fields) => term.shakeTimers < MaxShakeTimers
    /\ ~Invalid(term.fields) => Len(term.flows) < MaxFlows
    /\ term' = IF Invalid(term.fields)
               THEN [ term EXCEPT !.status = "ERROR: NULL_DATA_EXCEPTION",
                                  !.shake = TRUE,
                                  !.shakeTimers = @ + 1 ]
               ELSE BeginSend(term)
    /\ UNCHANGED << page, canvasVars, error, dom, rafPending, secrets, legacy, boot, menu, widgetVars >>

\* a timer of executeSend fires: 1500 ms, 1000 ms, or the 3000 ms reset
SendTimeout ==
    /\ page = "terminal"
    /\ \E k \in 1 .. Len(term.flows) : term' = AfterTimer(term, k)
    /\ UNCHANGED << page, canvasVars, error, dom, rafPending, secrets, legacy, boot, menu, widgetVars >>

\* the 500 ms timer of line 1859
ShakeTimeout ==
    /\ page = "terminal"
    /\ term.shakeTimers > 0
    /\ term' = [ term EXCEPT !.shake = FALSE, !.shakeTimers = @ - 1 ]
    /\ UNCHANGED << page, canvasVars, error, dom, rafPending, secrets, legacy, boot, menu, widgetVars >>

\* ---------------------------------------------------- MobileMenuController
\* (mutant) updateState only ever adds the classes
UpdateStateOpenOnly(m) ==
    IF m.isOpen THEN [ m EXCEPT !.sidebarActive = TRUE, !.toggleActive = TRUE ] ELSE m

\* updateState(): classList.add or classList.remove on sidebar and toggle
UpdateState(m) == [ m EXCEPT !.sidebarActive = m.isOpen, !.toggleActive = m.isOpen ]

\* The page after new MobileMenuController(): init() has registered the listeners
\* if toggle and sidebar both exist.
MenuInit ==
    /\ page = "menu"
    /\ dom \in { { "toggle", "sidebar" }, { "sidebar" } }
    /\ menu = MenuOff
    /\ error = FALSE
    /\ rafPending = 0
    /\ secrets = SecretsOff
    /\ legacy = LegacyOff
    /\ boot = BootOff
    /\ term = TermOff
    /\ WidgetIdle
    /\ CanvasIdle

\* a click on the toggle: toggleMenu(); stopPropagation keeps it from the document
ToggleClick ==
    /\ page = "menu"
    /\ { "toggle", "sidebar" } \subseteq dom
    /\ menu' = UpdateState([ menu EXCEPT
                   !.isOpen = ~menu.isOpen,
                   !.last = [ kind |-> "toggle", target |-> "toggle",
                              wasOpen |-> menu.isOpen ] ])
    /\ UNCHANGED << page, canvasVars, error, dom, rafPending, secrets, legacy, boot, term, widgetVars >>

\* a click on a nav link: closeMenu(); the document listener that the click
\* bubbles to then finds the menu closed
NavLinkClick ==
    /\ page = "menu"
    /\ { "toggle", "sidebar" } \subseteq dom
    /\ menu' = UpdateState([ menu EXCEPT
                   !.isOpen = FALSE,
                   !.last = [ kind |-> "link", target |-> "link", wasOpen |-> menu.isOpen ] ])
    /\ UNCHANGED << page, canvasVars, error, dom, rafPending, secrets, legacy, boot, term, widgetVars >>

\* the document click listener for a click inside the sidebar or outside both
DocumentClick ==
    /\ page = "menu"
    /\ { "toggle", "sidebar" } \subseteq dom
    /\ \E target \in { "sidebar", "outside" } :
          LET m == [ menu EXCEPT !.last = [ kind |-> "document", target |-> target,
                                            wasOpen |-> menu.isOpen ] ]
          IN  menu' = IF menu.isOpen /\ target = "outside"
                      THEN UpdateState([ m EXCEPT !.isOpen = FALSE ])
                      ELSE m
    /\ UNCHANGED << page, canvasVars, error, dom, rafPending, secrets, legacy, boot, term, widgetVars >>

\* ---------------------------------------------------------- Utils.debounce
\* the arguments a call hands to the wrapper
CallArgs == { 1, 2 }

\* (mutant) a wrapper that sets its timer without clearing the one before
DebounceCallNoClear(d, arg) ==
    [ d EXCEPT !.pending = @ \cup { [ id |-> d.nextId, due |-> d.now + WaitTicks,
                                      arg |-> arg ] },
               !.timer = d.nextId,
               !.nextId = @ + 1,
               !.calls = @ + 1,
               !.bursts = IF d.calls = 0 \/ d.now - d.lastCall.at >= WaitTicks
                          THEN @ + 1 ELSE @,
               !.lastCall = [ at |-> d.now, arg |-> arg ] ]

\* the function Utils.debounce returns: clearTimeout(timer), then a new timer
\* that will apply func to the arguments of this call.  calls, bursts and
\* lastCall record the calls made: a call opens a burst when it is the first or
\* comes WaitTicks or more after the call before it.
DebounceCall(d, arg) ==
    [ d EXCEPT !.pending = { t \in @ : t.id # d.timer }
                             \cup { [ id |-> d.nextId, due |-> d.now + WaitTicks,
                                      arg |-> arg ] },
               !.timer = d.nextId,
               !.nextId = @ + 1,
               !.calls = @ + 1,
               !.bursts = IF d.calls = 0 \/ d.now - d.lastCall.at >= WaitTicks
                          THEN @ + 1 ELSE @,
               !.lastCall = [ at |-> d.now, arg |-> arg ] ]

\* the timer's callback: func.apply(context, args); the invocation is recorded
\* with its time, its arguments and the latest call made so far
DebounceFire(d, t) ==
    [ d EXCEPT !.pending = @ \ { t },
               !.invoked = Append(@, [ at |-> d.now, arg |-> t.arg, last |-> d.lastCall ]) ]

\* A page whose resize listener is a debounced function (lines 356 and 1420):
\* nothing has been called yet.  gen counts the particle sets the wrapped
\* resize() or handleResize() has created.
DebounceInit ==
    /\ page = "debounce"
    /\ dom = { }
    /\ WidgetIdle
    /\ error = FALSE
    /\ rafPending = 0
    /\ secrets = SecretsOff
    /\ legacy = LegacyOff
    /\ boot = BootOff
    /\ term = TermOff
    /\ menu = MenuOff
    /\ CanvasIdle

\* a resize event: the wrapper runs.  A timer that is due fires before any
\* event of the same instant.
DebouncedCall ==
    /\ page = "debounce"
    /\ deb.calls < MaxCalls
    /\ \A t \in deb.pending : t.due > deb.now
    /\ \E arg \in CallArgs : deb' = DebounceCall(deb, arg)
    /\ UNCHANGED << page, canvasVars, error, dom, rafPending, secrets, legacy, boot, term, menu,
                    thr, engine, scramble >>

\* a timer of the wrapper fires: the wrapped resize recreates the particle set
DebounceTimeout ==
    /\ page = "debounce"
    /\ \E t \in deb.pending :
          /\ t.due <= deb.now
          /\ deb' = DebounceFire(deb, t)
    /\ gen' = gen + 1
    /\ UNCHANGED << page, frames, ncVars, appVars, push, scan, lines, ops, error, dom,
                    rafPending, secrets, legacy, boot, term, menu, thr, engine, scramble >>

\* the clock advances when no timer is due
DebounceTick ==
    /\ page = "debounce"
    /\ deb.now < MaxTime
    /\ \A t \in deb.pending : t.due > deb.now
    /\ deb' = [ deb EXCEPT !.now = @ + 1 ]
    /\ UNCHANGED << page, canvasVars, error, dom, rafPending, secrets, legacy, boot, term, menu,
                    thr, engine, scramble >>

\* ---------------------------------------------------------- Utils.throttle
\* (mutant) a wrapper that never closes its window
ThrottleCallNoWindow(t, arg) ==
    [ t EXCEPT !.invoked = Append(@, [ at |-> t.now, arg |-> arg, call |-> t.calls + 1 ]),
               !.calls = @ + 1,
               !.lastCall = [ at |-> t.now, arg |-> arg ] ]

\* the function Utils.throttle returns: outside the window func is applied at
\* once, the window opens and a timer will close it; inside the window the
\* call does nothing
ThrottleCall(t, arg) ==
    IF ~t.inThrottle
    THEN [ t EXCEPT !.invoked = Append(@, [ at |-> t.now, arg |-> arg, call |-> t.calls + 1 ]),
                    !.inThrottle = TRUE,
                    !.pending = @ \cup { t.now + LimitTicks },
                    !.calls = @ + 1,
                    !.lastCall = [ at |-> t.now, arg |-> arg ] ]
    ELSE [ t EXCEPT !.calls = @ + 1,
                    !.dropped = @ + 1,
                    !.lastCall = [ at |-> t.now, arg |-> arg ] ]

\* A page whose scroll listener is a throttled function (lines 924 and 1631)
ThrottleInit ==
    /\ page = "throttle"
    /\ dom = { }
    /\ WidgetIdle
    /\ error = FALSE
    /\ rafPending = 0
    /\ secrets = SecretsOff
    /\ legacy = LegacyOff
    /\ boot = BootOff
    /\ term = TermOff
    /\ menu = MenuOff
    /\ CanvasIdle

\* a scroll event: the wrapper runs
ThrottledCall ==
    /\ page = "throttle"
    /\ thr.calls < MaxCalls
    /\ \E arg \in CallArgs : thr' = ThrottleCall(thr, arg)
    /\ UNCHANGED << page, canvasVars, error, dom, rafPending, secrets, legacy, boot, term, menu,
                    deb, engine, scramble >>

\* the timer of the wrapper: inThrottle = false
ThrottleTimeout ==
    /\ page = "throttle"
    /\ \E due \in thr.pending :
          /\ due <= thr.now
          /\ thr' = [ thr EXCEPT !.inThrottle = FALSE, !.pending = @ \ { due } ]
    /\ UNCHANGED << page, canvasVars, error, dom, rafPending, secrets, legacy, boot, term, menu,
                    deb, engine, scramble >>

\* the clock advances when no timer is due
ThrottleTick ==
    /\ page = "throttle"
    /\ thr.now < MaxTime
    /\ \A due \in thr.pending : due > thr.now
    /\ thr' = [ thr EXCEPT !.now = @ + 1 ]
    /\ UNCHANGED << page, canvasVars, error, dom, rafPending, secrets, legacy, boot, term, menu,
                    deb, engine, scramble >>

\* ------------------------------------------------------------ TypingEngine
\* the lengths of the phrases of the two engines the Application constructs:
\* 'sidebar-role-typewriter' (line 1067) and 'hero-typewriter' (lines 1090-1092)
EnginePhrases == { << 11, 14, 14, 10 >>, << 25, 24, 26 >> }

\* tick(): a waiting engine sets the waitDelay timer; a deleting one drops a
\* character and, at none left, turns to the next phrase and ticks again at
\* once; a typing one adds a character and, at the whole phrase, starts to
\* wait and ticks again at once.  Otherwise the next tick is a timer.
RECURSIVE Tick(_)
Tick(e) ==
    LET len  == e.phrases[e.phraseIndex + 1]
        down == e.charIndex - 1
        up   == e.charIndex + 1
        sub(c) == IF c < 0 THEN 0 ELSE IF c > len THEN len ELSE c
    IN  IF e.isWaiting
        THEN [ e EXCEPT !.timers = Append(@, "wait") ]
        ELSE IF e.isDeleting
        THEN IF down = 0
             THEN Tick([ e EXCEPT !.charIndex = down, !.text = sub(down),
                                  !.isDeleting = FALSE,
                                  !.phraseIndex = (@ + 1) % Len(e.phrases) ])
             ELSE [ e EXCEPT !.charIndex = down, !.text = sub(down),
                             !.timers = Append(@, "tick") ]
        ELSE IF up = len
             THEN Tick([ e EXCEPT !.charIndex = up, !.text = sub(up), !.isWaiting = TRUE ])
             ELSE [ e EXCEPT !.charIndex = up, !.text = sub(up),
                             !.timers = Append(@, "tick") ]

\* (mutant) the end of the wait leaves isWaiting set
WaitOverStillWaiting(e) == [ e EXCEPT !.isDeleting = TRUE ]

\* the callback of the waitDelay timer, lines 882-883
WaitOver(e) == [ e EXCEPT !.isWaiting = FALSE, !.isDeleting = TRUE ]

\* The page after initTypewriter(): where the element exists (and the Typed
\* library does not) new TypingEngine(id, phrases) has run its first tick().
EngineInit ==
    /\ page = "typing"
    /\ dom \in { { }, { "typewriter" } }
    /\ \E ph \in EnginePhrases :
          engine = IF "typewriter" \in dom
                   THEN Tick([ EngineOff EXCEPT !.phrases = ph ])
                   ELSE EngineOff
    /\ deb = DebOff
    /\ thr = ThrOff
    /\ scramble = ScrambleOff
    /\ error = FALSE
    /\ rafPending = 0
    /\ secrets = SecretsOff
    /\ legacy = LegacyOff
    /\ boot = BootOff
    /\ term = TermOff
    /\ menu = MenuOff
    /\ CanvasIdle

\* a timer of the engine fires: the end of the wait and tick(), or tick()
EngineTimeout ==
    /\ page = "typing"
    /\ \E k \in 1 .. Len(engine.timers) :
          LET e == [ engine EXCEPT !.timers = Without(@, k) ]
          IN  engine' = IF engine.timers[k] = "wait" THEN Tick(WaitOver(e)) ELSE Tick(e)
    /\ UNCHANGED << page, canvasVars, error, dom, rafPending, secrets, legacy, boot, term, menu,
                    deb, thr, scramble >>

\* ------------------------------------------------------------ TextScramble
\* Texts are sequences of characters.  What the element shows before the first
\* setText, and the texts setText is called with: plain ones, an empty one and
\* one that begins like a tag.
OldTexts == { << >>, << "X", "Y", "Z" >> }

NewTexts == { << "A", "B" >>, << "<", "B" >>, << >> }

\* streams of Math.random() draws for the start and end of the queue entries
ScrambleStreams == << << 0, 0, 99, 99, 50, 0 >>, << 99, 99, 0, 50, 40, 70 >> >>

\* setText, lines 1664-1675: the queue for the change from oldText to newText,
\* entry i with the draws 2i-1 and 2i of the stream
Queue(oldText, newText, seed) ==
    LET length == IF Len(oldText) > Len(newText) THEN Len(oldText) ELSE Len(newText)
        draw(j) == ScrambleStreams[seed][((j - 1) % Len(ScrambleStreams[seed])) + 1]
        start(i) == (draw(2 * i - 1) * ScrambleSpan) \div RandDen
    IN  [ i \in 1 .. length |->
            [ from  |-> IF i <= Len(oldText) THEN oldText[i] ELSE "",
              to    |-> IF i <= Len(newText) THEN newText[i] ELSE "",
              start |-> start(i),
              end   |-> start(i) + (draw(2 * i) * ScrambleSpan) \div RandDen,
              char  |-> "" ] ]

\* What the element shows once html has been assigned to innerHTML.  html is a
\* sequence of characters and of "dud" entries (a span around one random
\* character, shown as "#").  A "<" followed by a letter opens a tag: the parser
\* drops it with all that follows up to the next ">", which only the markup of a
\* dud entry can supply here.  An empty entry adds nothing.
RECURSIVE Render(_, _)
Render(html, inTag) ==
    IF html = << >> THEN << >>
    ELSE LET h == Head(html)
             letter == h \in { "A", "B", "X", "Y", "Z" }
         IN  IF h = "" THEN Render(Tail(html), inTag)
             ELSE IF h = "dud" THEN << "#" >> \o Render(Tail(html), FALSE)
             ELSE IF inTag THEN Render(Tail(html), TRUE)
             ELSE IF h = "<" /\ Len(html) >= 2 /\ html[2] \in { "A", "B", "X", "Y", "Z" }
                  THEN Render(Tail(html), TRUE)
                  ELSE << h >> \o Render(Tail(html), FALSE)

\* update(): the output of this frame, innerHTML, and either resolve() or the
\* request of the next frame
Update(sd) ==
    LET cell(q) == IF sd.frame >= q.end THEN q.to
                   ELSE IF sd.frame >= q.start THEN "dud" ELSE q.from
        output   == [ i \in 1 .. Len(sd.queue) |-> cell(sd.queue[i]) ]
        complete == Cardinality({ i \in 1 .. Len(sd.queue) : sd.frame >= sd.queue[i].end })
        queue    == [ i \in 1 .. Len(sd.queue) |->
                        IF sd.frame < sd.queue[i].end /\ sd.frame >= sd.queue[i].start
                        THEN [ sd.queue[i] EXCEPT !.char = "#" ] ELSE sd.queue[i] ]
        shown    == [ sd EXCEPT !.html = output, !.inner = Render(output, FALSE),
                                !.queue = queue, !.updates = @ + 1 ]
    IN  IF complete = Len(sd.queue)
        THEN [ shown EXCEPT !.resolved = @ + 1 ]
        ELSE [ shown EXCEPT !.frameRequest = sd.nextId,
                            !.pending = @ \cup { sd.nextId },
                            !.nextId = @ + 1,
                            !.frame = @ + 1 ]

\* setText(newText): a new promise, the queue, cancelAnimationFrame of the
\* last request, frame 0 and the first update()
SetText(sd, newText, seed) ==
    Update([ sd EXCEPT !.queue = Queue(sd.inner, newText, seed),
                       !.target = newText,
                       !.pending = @ \ { sd.frameRequest },
                       !.frame = 0,
                       !.resolved = 0,
                       !.updates = 0,
                       !.setTexts = @ + 1 ])

\* The page after new TextScramble(el) for an element that shows some text
ScrambleInit ==
    /\ page = "scramble"
    /\ dom = { "glitch-heading" }
    /\ \E t \in OldTexts : scramble = [ ScrambleOff EXCEPT !.inner = t, !.html = t ]
    /\ deb = DebOff
    /\ thr = ThrOff
    /\ engine = EngineOff
    /\ error = FALSE
    /\ rafPending = 0
    /\ secrets = SecretsOff
    /\ legacy = LegacyOff
    /\ boot = BootOff
    /\ term = TermOff
    /\ menu = MenuOff
    /\ CanvasIdle

\* a call of setText, at rest or while an animation runs
ScrambleSetText ==
    /\ page = "scramble"
    /\ scramble.setTexts < MaxSetTexts
    /\ \E t \in NewTexts, seed \in 1 .. Len(ScrambleStreams) :
          scramble' = SetText(scramble, t, seed)
    /\ UNCHANGED << page, canvasVars, error, dom, rafPending, secrets, legacy, boot, term, menu,
                    deb, thr, engine >>

\* a requested animation frame runs update()
ScrambleFrame ==
    /\ page = "scramble"
    /\ \E id \in scramble.pending :
          scramble' = Update([ scramble EXCEPT !.pending = @ \ { id } ])
    /\ UNCHANGED << page, canvasVars, error, dom, rafPending, secrets, legacy, boot, term, menu,
                    deb, thr, engine >>

Init ==
    NCInit \/ ScrambleInit \/ EngineInit \/ DebounceInit \/ ThrottleInit \/ AppInit \/ KeysInit \/ LegacyInit \/ BootInit \/ TermInit \/ MenuInit

Next ==
    \/ NCAnimate
    \/ NCHandleMouseMove
    \/ NCResize
    \/ AppLoop
    \/ HandleMouseMove
    \/ HandleMouseDown
    \/ HandleMouseUp
    \/ HandleTouchStart
    \/ HandleTouchMove
    \/ HandleTouchEnd
    \/ HandleResize
    \/ CreateNodesTimeout
    \/ CheckInput
    \/ TypeEffectTimeout
    \/ NavbarScroll
    \/ OrbMouseMove
    \/ BootGlitchTimeout
    \/ BootStepTimeout
    \/ BootFadeTimeout
    \/ TermInput
    \/ TermFocus
    \/ ExecuteSend
    \/ SendTimeout
    \/ ShakeTimeout
    \/ ToggleClick
    \/ NavLinkClick
    \/ DocumentClick
    \/ DebouncedCall
    \/ DebounceTimeout
    \/ DebounceTick
    \/ ThrottledCall
    \/ ThrottleTimeout
    \/ ThrottleTick
    \/ EngineTimeout
    \/ ScrambleSetText
    \/ ScrambleFrame

Spec == Init /\ [][Next]_vars

\* Timers set with setTimeout fire: a pending timer of executeSend is not
\* postponed for ever.
FairSpec == Spec /\ WF_vars(SendTimeout) /\ WF_vars(EngineTimeout)

\* ================================================================== claims
\* the particle set that is drawn on the page, its connection threshold, its largest
\* line alpha (a fraction), and the canvas bounds of a NeuralCanvas particle
Drawn == IF page = "nc" THEN particles ELSE bgParticles

Threshold == IF page = "nc" THEN connectionRadius ELSE connectionDistance

AlphaMax == IF page = "nc" THEN <<1, 5>> ELSE <<3, 20>>

HasPos(p) == page = "nc" => ~p.nan

NCInside(p) == ~p.nan /\ p.x >= 0 /\ p.x <= U(width) /\ p.y >= 0 /\ p.y <= U(height)

\* a connection scan has run on the current particle set
Scanned == frames >= 1 /\ scan # << >>

\* C1 (as claimed): after every frame every particle of either background
\* animation has x in [0, width] and y in [0, height].
C1_AllParticlesInBounds ==
    /\ \A i \in DOMAIN particles : ~particles[i].nan => NCInside(particles[i])
    /\ \A i \in DOMAIN bgParticles : ~BGOutside(bgParticles[i])

\* C1 (amended): every BackgroundParticle is inside its stored bounds
\* [0, w] x [0, h] after every update, because update() re-seeds a particle
\* that has left them (NeuralCanvas particles are reflected, not clamped).
C1_BackgroundParticleInBounds ==
    \A i \in DOMAIN bgParticles :
        /\ bgParticles[i].x >= 0 /\ bgParticles[i].x <= U(bgParticles[i].w)
        /\ bgParticles[i].y >= 0 /\ bgParticles[i].y <= U(bgParticles[i].h)

\* C1 witness: an update has just re-seeded a particle that left the bounds.
C1_Witness == page = "app" /\ frames >= 1 /\ bgResets >= 1

\* C2: in NeuralCanvas.draw the velocity sign of an axis flips once per boundary
\* crossing: never a second time while the particle is still outside.
C2_FlipOncePerCrossing ==
    \A i \in DOMAIN particles : xflips[i] <= 1 /\ yflips[i] <= 1

\* C3: a NeuralCanvas particle that ends a frame outside the bounds is inside
\* again at the end of the next frame, and a frame moves it only by its velocity
\* and the pointer displacement.
C3_OutsideAtMostOneFrame ==
    [][ (page = "nc" /\ frames' = frames + 1 /\ ~reducedMotion) =>
          \A i \in DOMAIN particles :
              (~particles[i].nan /\ ~particles'[i].nan) =>
                  /\ particles'[i].x = particles[i].x + particles[i].vx + push'[i].px
                  /\ particles'[i].y = particles[i].y + particles[i].vy + push'[i].py
                  /\ ~NCInside(particles[i]) => NCInside(particles'[i]) ]_vars

\* C4: after a frame, two distinct particles are joined by a line if and only
\* if their distance is strictly below the connection threshold.
C4_LineIffBelowThreshold ==
    Scanned =>
        \A a, b \in DOMAIN Drawn :
            a < b =>
                ( (\E k \in DOMAIN lines : lines[k].a = a /\ lines[k].b = b)
                  <=> ( /\ HasPos(Drawn[a])
                        /\ HasPos(Drawn[b])
                        /\ Dist2(Drawn[a], Drawn[b]) < U(Threshold) * U(Threshold) ) )

\* C4 witness: a frame with a pair exactly at the threshold and a joined pair.
C4_Witness ==
    /\ Scanned
    /\ \E a, b \in DOMAIN Drawn :
          a < b /\ HasPos(Drawn[a]) /\ HasPos(Drawn[b])
                /\ Dist2(Drawn[a], Drawn[b]) = U(Threshold) * U(Threshold)
    /\ \E k \in DOMAIN lines : lines[k].a < lines[k].b

\* C5 (as claimed): the alpha of a line between two particles is 1 - d / threshold,
\* so 1 at distance 0.
C5_OpacityFromOne ==
    \A k \in DOMAIN lines :
        lines[k].a # lines[k].b =>
            lines[k].alpha[1] * U(Threshold) = lines[k].alpha[2] * (U(Threshold) - lines[k].d)

\* C5 (amended): the alpha of a line is max * (1 - d / threshold) with max = 0.2
\* (NeuralCanvas) or 0.15 (BackgroundSystem): max at distance 0, falling linearly
\* to 0 at the threshold, positive for every drawn line and strictly smaller for
\* a longer line.
C5_OpacityLinearFromMax ==
    /\ \A k \in DOMAIN lines :
          /\ lines[k].alpha[1] > 0 /\ lines[k].alpha[2] > 0
          /\ lines[k].alpha[1] * AlphaMax[2] * U(Threshold)
               = lines[k].alpha[2] * AlphaMax[1] * (U(Threshold) - lines[k].d)
    /\ \A j, k \in DOMAIN lines :
          lines[j].d < lines[k].d =>
              lines[j].alpha[1] * lines[k].alpha[2] > lines[k].alpha[1] * lines[j].alpha[2]

\* C5 witness: a frame that joins two particles at distance 0 and two farther apart.
C5_Witness ==
    /\ \E k \in DOMAIN lines : lines[k].a # lines[k].b /\ lines[k].d = 0
    /\ \E k \in DOMAIN lines : lines[k].d > 0

\* C6: a connection scan tests every unordered pair of two different particles
\* exactly once, n(n-1)/2 tests for n particles, and strokes no self line.
C6_EachPairOnce ==
    Scanned =>
        /\ 2 * Len(scan) = Len(Drawn) * (Len(Drawn) - 1)
        /\ \A k \in DOMAIN scan : scan[k][1] # scan[k][2]
        /\ \A j, k \in DOMAIN scan : j # k => scan[j] # scan[k]
        /\ \A k \in DOMAIN lines : lines[k].a # lines[k].b

\* two particles or nodes i, j the pointer acted on in the last frame, i closer
Closer(i, j) ==
    push[i].hit /\ push[j].hit /\ 0 < push[i].d /\ push[i].d < push[j].d

\* the pointer radius of the page, in units
Radius == IF page = "nc" THEN U(mouseRadius) ELSE U(annMouseRadius)

\* the largest pointer displacement on an axis: 2 (draw) or mouseForce * 5 (update)
Multiplier == IF page = "nc" THEN U(2) ELSE U(mouseForce * 5)

\* C7 (as claimed): no displacement at a pointer distance >= radius, and below
\* the radius the strength decreases strictly as the distance shrinks.
C7_WeakerWhenCloser ==
    /\ \A i \in DOMAIN push : push[i].d >= Radius => push[i].px = 0 /\ push[i].py = 0
    /\ \A i, j \in DOMAIN push :
          Closer(i, j) => push[i].force[1] * push[j].force[2] < push[j].force[1] * push[i].force[2]

\* C7 (amended): no displacement at a pointer distance >= radius, and for
\* 0 < distance < radius the strength increases strictly as the distance shrinks.
C7_ZeroBeyondRadiusStrongerWhenCloser ==
    /\ \A i \in DOMAIN push :
          push[i].d >= Radius => ~push[i].hit /\ push[i].px = 0 /\ push[i].py = 0
    /\ \A i, j \in DOMAIN push :
          Closer(i, j) => push[i].force[1] * push[j].force[2] > push[j].force[1] * push[i].force[2]

\* C7 witness: one frame with the pointer in reach of two particles at different
\* distances and out of reach of a third.
C7_Witness ==
    /\ \E i, j \in DOMAIN push : Closer(i, j)
    /\ \E i \in DOMAIN push : push[i].d >= Radius

\* C8: for 0 < d < radius the displacement points away from the pointer, a closer
\* pointer gives a strictly larger strength, and the strength stays within
\* (0, 1] so that no component of the displacement exceeds the force multiplier.
C8_RepelsStrongerWhenCloserCapped ==
    /\ \A i \in DOMAIN push :
          (push[i].hit /\ push[i].d > 0) =>
              /\ push[i].d < Radius
              /\ push[i].px * push[i].dx <= 0
              /\ push[i].py * push[i].dy <= 0
              /\ (10 * push[i].force[1] >= push[i].force[2])
                     => (push[i].px # 0 \/ push[i].py # 0)
              /\ 0 < push[i].force[1] /\ push[i].force[1] <= push[i].force[2]
              /\ Abs(push[i].px) <= Multiplier /\ Abs(push[i].py) <= Multiplier
    /\ \A i, j \in DOMAIN push :
          Closer(i, j) => push[i].force[1] > push[j].force[1]
                          /\ push[i].force[2] = push[j].force[2]

\* C8 witness: a frame that pushes two particles at different distances, one of
\* them to the left and up.
C8_Witness ==
    /\ \E i, j \in DOMAIN push : Closer(i, j)
    /\ \E i \in DOMAIN push : push[i].hit /\ push[i].dx > 0 /\ push[i].px < 0
                              /\ push[i].dy > 0 /\ push[i].py < 0

\* C9: a frame whose nodes are handed the sentinel pointer (-9999, -9999) applies
\* no pointer force to any node and activates none.
C9_SentinelNoForce ==
    (page = "app" /\ frames >= 1 /\ localMouse = << Sentinel, Sentinel >>) =>
        \A i \in DOMAIN push : ~push[i].hit /\ push[i].px = 0 /\ push[i].py = 0

\* C9 witness: a frame run with an active pointer outside the hero canvas.
C9_Witness ==
    /\ page = "app" /\ frames >= 1 /\ Len(nodes) > 0
    /\ localMouse = << Sentinel, Sentinel >>
    /\ \E i \in DOMAIN push : push[i].d >= Radius /\ push[i].dx # 0

\* C10: the first frame, drawn before any mousemove can have been handled,
\* displaces no particle by the pointer.
C10_NoPushBeforeFirstMove ==
    (page = "nc" /\ frames = 1) => \A i \in DOMAIN push : ~push[i].hit

\* C11: once a resize has been handled, the particle set has the size of the tier
\* of the new viewport width (NeuralCanvas: desktop above 1000; BackgroundSystem:
\* mobile below 768) and every particle in it was created by that resize.
C11_ResizeReplacesParticleSet ==
    gen >= 1 =>
        /\ page = "nc" =>
              /\ Len(particles) = IF width > 1000 THEN NCCountDesktop ELSE NCCountMobile
              /\ \A i \in DOMAIN particles : particles[i].born = gen
        /\ (page = "appResize" /\ surface = "ok") =>
              /\ Len(bgParticles) = IF screenW < 768 THEN BGCountMobile ELSE BGCountDesktop
              /\ \A i \in DOMAIN bgParticles : bgParticles[i].born = gen

\* C11 witness: frames have run on a particle set that a second resize, to a
\* window exactly 1000 wide, has created.
C11_Witness ==
    page = "nc" /\ gen = 2 /\ width = 1000 /\ Scanned /\ Len(particles) = NCCountMobile

\* C12: every BackgroundParticle's stored bounds (w, h) are the current width and
\* height of the background CanvasController.
C12_ParticleBoundsAreCanvasSize ==
    page \in AppPages =>
        \A i \in DOMAIN bgParticles : bgParticles[i].w = bgW /\ bgParticles[i].h = bgH

\* C12 witness: a frame has stepped, with a reset, the particles that a resize
\* to a narrower window created.
C12_Witness ==
    /\ page = "appResize" /\ gen >= 1 /\ Scanned /\ bgResets >= 1
    /\ bgW = 700 /\ Len(bgParticles) = BGCountMobile

\* C13 (as claimed): in a frame every position update comes before every line
\* and every line before every circle.
C13_StepsThenLinesThenCircles ==
    \A j, k \in DOMAIN ops :
        /\ (ops[j].op = "step" /\ ops[k].op = "line") => j < k
        /\ (ops[j].op = "line" /\ ops[k].op = "circle") => j < k

\* C13 (amended): in a frame every particle is updated once and drawn once, after
\* its update; every position update comes before every line; no line comes before
\* the circle of its first particle.  NeuralCanvas draws all circles before all
\* lines; BackgroundSystem draws the line of particles a < b after the circle of a
\* and before the circle of b.
C13_StepsBeforeLinesCirclesInterleaved ==
    /\ \A j, k \in DOMAIN ops : (ops[j].op = "step" /\ ops[k].op = "line") => j < k
    /\ ops # << >> =>
          \A i \in DOMAIN Drawn :
              \E j, k \in DOMAIN ops :
                  /\ j < k /\ ops[j] = StepOp(i) /\ ops[k] = CircleOp(i)
                  /\ \A m \in DOMAIN ops : ops[m] = StepOp(i) => m = j
                  /\ \A m \in DOMAIN ops : ops[m] = CircleOp(i) => m = k
    /\ \A k \in DOMAIN ops :
          ops[k].op = "line" =>
              /\ \E j \in 1 .. k - 1 : ops[j] = CircleOp(ops[k].a)
              /\ page = "nc" => \A j \in DOMAIN ops : ops[j].op = "circle" => j < k
              /\ page \in AppPages =>
                    /\ ops[k].a < ops[k].b
                    /\ \E j \in k + 1 .. Len(ops) : ops[j] = CircleOp(ops[k].b)

\* C13 witness: a BackgroundSystem frame that strokes a line.
C13_Witness ==
    page \in AppPages /\ \E k \in DOMAIN ops : ops[k].op = "line"

\* C17: a canvas that gives no 2D context raises no error and draws nothing.
C17_NoContextNoError ==
    surface = "nocontext" => (~error /\ ops = << >>)

\* C14: at most one animation-frame callback is pending for the background canvas,
\* whatever events the page has handled.
C14_OneFrameCallbackPending == rafPending <= 1

\* C15: a component whose element or canvas is absent raises no error, neither at
\* startup nor in a later timer or event callback, and draws nothing.
C15_MissingElementNoError ==
    /\ (page = "legacy" /\ dom # { "typing", "navbar", "orb" }) => ~error
    /\ surface = "missing" => (~error /\ ops = << >>)
    /\ (page = "terminal" /\ "terminal" \notin dom) => ~error
    /\ (page = "boot" /\ "loader" \notin dom) => ~error

\* C16: without the background canvas, no sequence of key presses raises an error.
C16_KonamiWithoutCanvasNoError ==
    (page = "keys" /\ "canvas" \notin dom) => ~error

\* C18: the sidebar has 'mobile-active' and the toggle has 'active' exactly when
\* isOpen is true; a document click changes isOpen only by closing an open menu
\* from outside sidebar and toggle, and does close it then; after a nav-link
\* click the menu is closed.
C18_MenuClassesReflectFlag ==
    page = "menu" =>
        /\ menu.sidebarActive = menu.isOpen
        /\ menu.toggleActive = menu.isOpen
        /\ menu.last.kind = "link" => ~menu.isOpen
        /\ menu.last.kind = "document" =>
              /\ menu.isOpen # menu.last.wasOpen =>
                    (menu.last.wasOpen /\ menu.last.target = "outside")
              /\ (menu.last.wasOpen /\ menu.last.target = "outside") => ~menu.isOpen
              /\ menu.last.target = "sidebar" => menu.isOpen = menu.last.wasOpen

\* C18 witness: a click outside has closed a menu that the toggle had opened.
C18_Witness ==
    /\ page = "menu" /\ ~menu.isOpen
    /\ menu.last = [ kind |-> "document", target |-> "outside", wasOpen |-> TRUE ]

\* C19: isBooted is true only once the last step has finished, and once the boot
\* sequence has finished and none of its timers is pending, scrolling is
\* enabled again, with or without the loader element.
C19_BootRestoresScrolling ==
    page = "boot" =>
        /\ boot.isBooted => (boot.step = Len(steps) /\ ~boot.stepTimer)
        /\ (boot.isBooted /\ ~boot.fadeTimer) => boot.overflow = "visible"

\* C20: executeSend with an empty field reports NULL_DATA_EXCEPTION and shakes,
\* leaves the button's label, disabled flag and background, the inputs and the
\* sending phase as they are, and a pending timer stands for every shake class;
\* only a form with three filled fields starts transmitting.
C20_EmptyFieldRejected ==
    [][ page = "terminal" =>
          /\ term'.shake => term'.shakeTimers > 0
          /\ term'.shakeTimers > term.shakeTimers =>
                /\ Cardinality({ i \in 1 .. 3 : ~term.fields[i] }) >= 1
                /\ term' = [ term EXCEPT !.status = "ERROR: NULL_DATA_EXCEPTION",
                                         !.shake = TRUE,
                                         !.shakeTimers = @ + 1 ]
                /\ term'.flows = << >>
          /\ (term.flows = << >> /\ term'.flows # << >>) =>
                Cardinality({ i \in 1 .. 3 : term.fields[i] }) = 3 ]_vars

\* C20 witness: a form with two filled fields has just been refused.
C20_Witness ==
    /\ page = "terminal"
    /\ term.fields = << TRUE, TRUE, FALSE >>
    /\ term.status = "ERROR: NULL_DATA_EXCEPTION" /\ term.shake /\ term.flows = << >>

\* C21: once executeSend has passed validation, its messages are written in the
\* order 'Encrypting payload...', 'Handshake established with server...',
\* 'Payload delivered successfully.', 'Ready for new transmission.', and the
\* send always comes to its end, where the button is enabled again, its label is
\* reset and all inputs are empty.
C21_SendRunsToReset ==
    /\ [](page = "terminal" =>
            /\ Len(term.log) <= Len(SendMessages)
            /\ \A k \in 1 .. Len(term.log) : term.log[k] = SendMessages[k]
            /\ term.flows = << >> => term.log \in { << >>, SendMessages })
    /\ [][(page = "terminal" /\ term.flows # << >> /\ term'.flows = << >>) =>
            /\ ~term'.disabled
            /\ term'.label = "EXECUTE_SEND"
            /\ term'.fields = << FALSE, FALSE, FALSE >>
            /\ term'.status = SendMessages[4]]_vars
    /\ (page = "terminal" /\ term.flows # << >>)
          ~> (term.flows = << >> /\ ~term.disabled /\ term.label = "EXECUTE_SEND"
                /\ term.fields = << FALSE, FALSE, FALSE >> /\ term.log = SendMessages)

\* C21 witness: a send has run to its reset while the user kept the form at rest.
C21_Witness ==
    /\ page = "terminal"
    /\ term.log = SendMessages /\ term.flows = << >>
    /\ term.status = SendMessages[4] /\ ~term.disabled
    /\ term.fields = << FALSE, FALSE, FALSE >>

\* C22: at most one send is under way at any time: while a send that has passed
\* validation has not yet reset the form, the button is disabled, so no second
\* send starts and no two reset timers are pending together.
C22_OneSendAtATime ==
    page = "terminal" =>
        /\ Len(term.flows) <= 1
        /\ term.flows # << >> => term.disabled
        /\ term.disabled => term.flows # << >>

\* C22 witness: the reset timer of a send is pending, the button still disabled
\* and the inputs filled again.
C22_Witness ==
    /\ page = "terminal"
    /\ term.flows = << "wait3000" >> /\ term.disabled
    /\ term.fields = << TRUE, TRUE, TRUE >> /\ term.label = "SENT"

\* C23: for a function wrapped by Utils.debounce, a burst of calls that each
\* come less than the wait after the one before causes exactly one invocation,
\* the wait after the last call of the burst and with that call's arguments, and
\* at most one timer is pending at any time; a burst of resize events therefore
\* recreates the particle set exactly once.
C23_DebounceOncePerBurst ==
    page = "debounce" =>
        /\ Cardinality(deb.pending) <= 1
        /\ Len(deb.invoked) = IF deb.pending = { } THEN deb.bursts ELSE deb.bursts - 1
        /\ gen = Len(deb.invoked)
        /\ \A k \in 1 .. Len(deb.invoked) :
              /\ deb.invoked[k].at = deb.invoked[k].last.at + WaitTicks
              /\ deb.invoked[k].arg = deb.invoked[k].last.arg

\* C23 witness: two bursts, the second of two calls with different arguments,
\* have each been answered.
C23_Witness ==
    /\ page = "debounce"
    /\ deb.calls >= 3 /\ deb.bursts = 2 /\ Len(deb.invoked) = 2 /\ gen = 2
    /\ deb.invoked[2].arg = 2
    /\ deb.invoked[2].at > deb.invoked[1].at + WaitTicks

\* C24: for a function wrapped by Utils.throttle, the first call invokes func at
\* once, a call made while the window is open is dropped and never replayed, and
\* two invocations are never closer than the limit.
C24_ThrottleDropsInsideWindow ==
    /\ [](page = "throttle" =>
            /\ thr.calls >= 1 => (Len(thr.invoked) >= 1 /\ thr.invoked[1].call = 1)
            /\ Len(thr.invoked) + thr.dropped = thr.calls
            /\ \A k \in 1 .. Len(thr.invoked) - 1 :
                  thr.invoked[k + 1].at - thr.invoked[k].at >= LimitTicks)
    /\ [][page = "throttle" =>
            /\ thr'.invoked # thr.invoked =>
                  /\ thr'.calls = thr.calls + 1
                  /\ ~thr.inThrottle
                  /\ thr'.invoked = Append(thr.invoked,
                                           [ at |-> thr.now, arg |-> thr'.lastCall.arg,
                                             call |-> thr'.calls ])
            /\ (thr.inThrottle /\ thr'.calls = thr.calls + 1) =>
                  (thr'.invoked = thr.invoked /\ thr'.dropped = thr.dropped + 1)]_vars

\* C24 witness: a call has been dropped inside the window and a later call,
\* after the window, has been invoked.
C24_Witness ==
    /\ page = "throttle"
    /\ thr.dropped >= 1 /\ Len(thr.invoked) = 2
    /\ thr.invoked[2].call >= 3
    /\ thr.invoked[2].at = thr.invoked[1].at + LimitTicks

\* C25: in the typeEffect loop charIndex stays within [0, length of the current
\* role], and during the 1500 ms pause that follows typing (isDeleting has just
\* been set at charIndex = length) the element shows the complete current role.
C25_PauseShowsWholeRole ==
    (page = "legacy" /\ "typing" \in dom) =>
        /\ legacy.charIndex >= 0
        /\ legacy.charIndex <= roles[legacy.roleIndex + 1]
        /\ (legacy.isDeleting /\ legacy.charIndex = roles[legacy.roleIndex + 1]) =>
              legacy.shown = roles[legacy.roleIndex + 1]

\* C26: a TypingEngine with phrases has, between ticks, exactly one timer
\* pending, never isWaiting and isDeleting together, charIndex within
\* [0, length of the current phrase], and it displays every phrase in full again
\* and again, in cyclic order.
C26_EngineCyclesThroughPhrases ==
    /\ [](page = "typing" /\ "typewriter" \in dom =>
            /\ Len(engine.timers) = 1
            /\ ~(engine.isWaiting /\ engine.isDeleting)
            /\ engine.charIndex >= 0
            /\ engine.charIndex <= engine.phrases[engine.phraseIndex + 1]
            /\ engine.isWaiting => engine.text = engine.phrases[engine.phraseIndex + 1])
    /\ [][(page = "typing" /\ engine'.phraseIndex # engine.phraseIndex) =>
            /\ engine'.phraseIndex = (engine.phraseIndex + 1) % Len(engine.phrases)
            /\ engine.isDeleting /\ engine.charIndex = 1]_vars
    /\ \A i \in 0 .. 3 :
          (page = "typing" /\ "typewriter" \in dom /\ i < Len(engine.phrases))
             ~> (engine.phraseIndex = i /\ engine.isWaiting
                   /\ engine.text = engine.phrases[i + 1])

\* C26 witness: the engine shows its last phrase in full and waits.
C26_Witness ==
    /\ page = "typing" /\ "typewriter" \in dom
    /\ engine.phraseIndex = Len(engine.phrases) - 1 /\ engine.isWaiting
    /\ engine.text = engine.phrases[Len(engine.phrases)]
    /\ Len(engine.timers) = 1 /\ engine.timers[1] = "wait"

\* C27: in NeuralCanvas.draw the pointer interaction never leaves a particle
\* without a position: for every pointer distance in [0, radius), the distance 0
\* of a pointer exactly on the particle included, x and y are defined numbers
\* after the frame.
C27_PositionDefinedAfterFrame ==
    page = "nc" => \A i \in 1 .. Len(particles) : ~particles[i].nan

\* C28 (as stated): every NeuralNode's activation is within [0, 1] and its
\* radius equals baseRadius + 5 * activation after any sequence of update,
\* activate and signal-arrival steps.
C28_RadiusFollowsActivation ==
    page \in AppPages =>
        \A i \in 1 .. Len(nodes) :
            /\ nodes[i].activation >= 0 /\ nodes[i].activation <= 100
            /\ nodes[i].radius
                 = nodes[i].baseRadius + RoundDiv(nodes[i].activation * 5 * Scale, 100)

\* C28 (amended): every NeuralNode's activation is within [0, 1]; its radius is
\* baseRadius + 5 * the activation its last update() left, so that an activate()
\* made by a signal after that update raises the activation without the radius
\* until the node's next update(); in a frame with no pointer nearby and no
\* signal the activation decreases by 0.01, down to 0, where it stays.
C28_RadiusFollowsLastUpdate ==
    /\ [](page \in AppPages =>
            \A i \in 1 .. Len(nodes) :
                /\ nodes[i].activation >= 0 /\ nodes[i].activation <= 100
                /\ nodes[i].lift >= 0 /\ nodes[i].lift <= nodes[i].activation
                /\ nodes[i].radius
                     = nodes[i].baseRadius
                        + RoundDiv((nodes[i].activation - nodes[i].lift) * 5 * Scale, 100))
    /\ [][(page \in AppPages /\ frames' = frames + 1 /\ surface = "ok") =>
            \A i \in 1 .. Len(nodes) :
                (~push'[i].hit /\ nodes'[i].lift = 0) =>
                    nodes'[i].activation
                      = (IF nodes[i].activation >= 1 THEN nodes[i].activation - 1 ELSE 0)]_vars

\* C28 witness: a node that an arriving signal activated by 0.3 has been updated
\* once since, with its radius grown by 5 * 0.29, while another node still
\* carries the activation of this frame's signal.
C28_Witness ==
    /\ page = "appSignals"
    /\ \E i, j \in 1 .. Len(nodes) :
          /\ nodes[i].activation = 29 /\ nodes[i].lift = 0
          /\ nodes[i].radius = nodes[i].baseRadius + RoundDiv(29 * 5 * Scale, 100)
          /\ nodes[j].lift > 0

\* C29: at the end of every NeuralNetworkSystem.update every signal of the list
\* is active with progress < 1, its start and end are nodes of the current node
\* set and the end is one of the start's connections; a signal that reaches
\* progress >= 1 activates its end node exactly once and is removed in the same
\* update; createNodes clears the signals together with the nodes.
C29_SignalsActiveOnCurrentNodes ==
    /\ [](page \in AppPages =>
            \A k \in 1 .. Len(signals) :
                LET sg == signals[k]
                IN  /\ sg.active /\ sg.progress < 1000
                    /\ sg.start \in 1 .. Len(nodes) /\ sg.end \in 1 .. Len(nodes)
                    /\ nodes[sg.start].born = sg.born /\ nodes[sg.end].born = sg.born
                    /\ \E c \in 1 .. Len(nodes[sg.start].connections) :
                          nodes[sg.start].connections[c] = sg.end)
    /\ [][(page \in AppPages /\ frames' = frames + 1 /\ surface = "ok") =>
            LET arriving == { k \in 1 .. Len(signals) :
                                signals[k].progress + signals[k].speed >= 1000 }
                count(n) == Cardinality({ k \in arriving : signals[k].end = n })
                cap(n, x) == LET base == nodes'[n].activation - nodes'[n].lift
                             IN  IF base + x < 100 THEN x ELSE 100 - base
            IN  /\ Len(signals') >= Len(signals) - Cardinality(arriving)
                /\ Len(signals') <= Len(signals) - Cardinality(arriving) + 2
                /\ \A n \in 1 .. Len(nodes) :
                      nodes'[n].lift \in { cap(n, 30 * count(n)), cap(n, 30 * count(n) + 50) }]_vars
    /\ [][(page \in AppPages /\ frames' = frames /\ nodes' # nodes) =>
            (signals' = << >> /\ \A i \in 1 .. Len(nodes') : nodes'[i].born = gen)]_vars

\* C29 witness: one signal has arrived in this update and activated its end
\* node, another is still on its way.
C29_Witness ==
    /\ page = "appSignals"
    /\ signals # << >>
    /\ signals[1].progress > 0
    /\ \E n \in 1 .. Len(nodes) : nodes[n].lift = 30 /\ nodes[n].layer = 1

\* C30: TextScramble.setText terminates: with no further setText the animation
\* stops requesting frames after at most 79 frames (twice the range of the
\* draws, less one), the element then shows exactly newText and the promise has
\* been resolved exactly once; a setText during a running animation cancels the
\* pending frame, so that only one update loop is ever active.
C30_ScrambleEndsOnNewText ==
    page = "scramble" =>
        /\ Cardinality(scramble.pending) <= 1
        /\ scramble.updates <= 2 * ScrambleSpan - 1
        /\ scramble.resolved <= 1
        /\ (scramble.setTexts >= 1 /\ scramble.pending = { }) =>
              (scramble.resolved = 1 /\ scramble.inner = scramble.target)

====
